---------------------------- MODULE Spec2Model ----------------------------
(***************************************************************************)
(* Record resolution and opening-date estimation core of the restaurant    *)
(* leads pipeline (app/tools/geocode_local.py, app/agents/agent_resolver.py,*)
(* app/rules.py, app/agents/agent_eta.py).                                 *)
(*                                                                         *)
(* Text is modelled at token level: a string is the sequence of its        *)
(* whitespace-separated words, a comma being a token of its own.  Letter   *)
(* case is kept (Lower and Title are tables over the vocabulary).          *)
(* Similarity scores and confidences are exact rationals: a score is a     *)
(* record [n, d] (n/d), a confidence an integer number of millionths.      *)
(* Dates are integer day numbers.                                          *)
(***************************************************************************)
EXTENDS Integers, Sequences, FiniteSets, TLC

VARIABLES
    \* ---- pair functions (geocode_local.py, _is_deterministic_match) ----
    rec1, rec2,          \* the two records under comparison
    pair_pc,             \* "idle" | "input" | "similarity" | "name_similarity" | "match"
    addr_sim_out,        \* result of calculate_address_similarity
    name_sim_out,        \* result of calculate_business_name_similarity
    match_out,           \* result of _is_deterministic_match
    \* ---- ResolverAgent.resolve_entities (agent_resolver.py) ----
    candidates,          \* the input list of records
    unmatched,           \* Pass 1: records not yet grouped
    groups,              \* Pass 1: the groups, in creation order
    ambiguous_pairs,     \* Pass 2: <<group1_idx, group2_idx, record1, record2>>
    pair_idx,            \* Pass 2: position in ambiguous_pairs
    final_groups,        \* Pass 2: the groups being merged
    llm_response,        \* Pass 2: the oracle's last answer
    merged_candidates,   \* Pass 3: the output entities
    res_pc,              \* "idle" | "pass1" | "pass2" | "done"
    seed_log,            \* history: <<seed, records unassigned at the pop>>
    confident_yes,       \* history: per pair asked, whether the answer was a confident yes
    \* ---- ETARulesEngine (rules.py) ----
    clock,               \* the wall clock, in half-days
    today,               \* self.today of the engine, read from the clock
    rule_in,             \* evaluate_candidate: the candidate
    rule_out,            \* evaluate_candidate: the rule result, NoResult or Raised
    lead_out,            \* should_create_lead(rule_out)
    rules_pc,            \* "idle" | "input" | "evaluated" | "gated"
    \* ---- ETAAgent (agent_eta.py) ----
    batch,               \* resolved_candidates of the call in progress
    variant,             \* "batch" (estimate_opening_dates) | "single"
    rule_results,        \* per candidate: the rule result or NoResult
    response_str,        \* the oracle's answer
    final_results,       \* per candidate: the result after adjustment
    qualified,           \* per candidate: passed `eta_result and should_create_lead`
    eta_pc,              \* "idle" | "rules" | "oracle" | "gate" | "done" | "raised"
    batch_no,            \* history: number of calls started on this agent
    batch_began          \* history: the clock when the call was entered

pairVars == <<rec1, rec2, pair_pc, addr_sim_out, name_sim_out, match_out>>
resolverVars == <<candidates, unmatched, groups, ambiguous_pairs, pair_idx, final_groups,
                  llm_response, merged_candidates, res_pc, seed_log, confident_yes>>
engineVars == <<clock, today>>
rulesVars == <<rule_in, rule_out, lead_out, rules_pc>>
etaVars == <<batch, variant, rule_results, response_str, final_results, qualified, eta_pc,
             batch_no, batch_began>>
etaAllVars == <<engineVars, rulesVars, etaVars>>
vars == <<pairVars, resolverVars, etaAllVars>>

(***************************************************************************)
(* Generic helpers                                                         *)
(***************************************************************************)
\* an absent (None) value of a word-sequence field
None == <<"None">>

Range(s) == {s[i] : i \in 1..Len(s)}

RECURSIVE FlattenSeq(_)
FlattenSeq(ss) == IF ss = <<>> THEN <<>> ELSE Head(ss) \o FlattenSeq(Tail(ss))

\* index of the first element of s, from i on, that is in set S; 0 when none is
RECURSIVE FirstIndex(_, _, _)
FirstIndex(S, s, i) ==
    IF i > Len(s) THEN 0
    ELSE IF s[i] \in S THEN i ELSE FirstIndex(S, s, i + 1)

\* rationals n/d, d > 0
Frac(n, d) == [n |-> n, d |-> d]
FracZero == Frac(0, 1)
FracOne == Frac(1, 1)
FracGT(f, n, d) == f.n * d > n * f.d        \* f > n/d
FracLT(f, n, d) == f.n * d < n * f.d        \* f < n/d
FracEq(f, g) == f.n * g.d = g.n * f.d
FracLE(f, g) == f.n * g.d <= g.n * f.d

(***************************************************************************)
(* Vocabulary: str.lower() and str.title() as tables                       *)
(***************************************************************************)
Lower(t) ==
    CASE t = "Main" -> "main"
      [] t = "MAIN" -> "main"
      [] t = "Oak" -> "oak"
      [] t = "St" -> "st"
      [] t = "Street" -> "street"
      [] t = "Ave" -> "ave"
      [] t = "Avenue" -> "avenue"
      [] t = "Houston" -> "houston"
      [] t = "Dallas" -> "dallas"
      [] t = "Sugar" -> "sugar"
      [] t = "Land" -> "land"
      [] t = "TX" -> "tx"
      [] t = "Suite" -> "suite"
      [] t = "A" -> "a"
      [] t = "B" -> "b"
      [] t = "Joe's" -> "joe's"
      [] t = "Pizza" -> "pizza"
      [] t = "Pizzeria" -> "pizzeria"
      [] t = "Restaurant" -> "restaurant"
      [] t = "LLC" -> "llc"
      [] t = "Inc." -> "inc."
      [] t = "Mary's" -> "mary's"
      [] t = "Cafe" -> "cafe"
      [] t = "Burgers" -> "burgers"
      [] t = "INFO@joes.com" -> "info@joes.com"
      [] t = "INFO@marys.com" -> "info@marys.com"
      [] t = "Original" -> "original"
      [] t = "Pending" -> "pending"
      [] t = "Denied" -> "denied"
      [] t = "Active" -> "active"
      [] t = "Plan" -> "plan"
      [] t = "Review" -> "review"
      [] t = "Approved" -> "approved"
      [] t = "Final" -> "final"
      [] t = "Inspection" -> "inspection"
      [] t = "Scheduled" -> "scheduled"
      [] t = "Tenant" -> "tenant"
      [] t = "Build-Out" -> "build-out"
      [] t = "Building" -> "building"
      [] t = "Permit" -> "permit"
      [] t = "Voided" -> "voided"
      [] t = "Expired" -> "expired"
      [] t = "CO" -> "co"
      [] t = "Food" -> "food"
      [] t = "Service" -> "service"
      [] t = "Different" -> "different"
      [] t = "Webster" -> "webster"
      [] t = "Name" -> "name"
      [] OTHER -> t

Title(t) ==
    CASE t = "main" -> "Main"
      [] t = "oak" -> "Oak"
      [] t = "st" -> "St"
      [] t = "street" -> "Street"
      [] t = "ave" -> "Ave"
      [] t = "avenue" -> "Avenue"
      [] t = "houston" -> "Houston"
      [] t = "dallas" -> "Dallas"
      [] t = "sugar" -> "Sugar"
      [] t = "land" -> "Land"
      [] t = "a" -> "A"
      [] t = "b" -> "B"
      [] t = "webster" -> "Webster"
      [] t = "web" -> "Web"
      [] t = "suite" -> "Suite"
      [] OTHER -> t

lower(s) == [i \in 1..Len(s) |-> Lower(s[i])]
title(s) == [i \in 1..Len(s) |-> Title(s[i])]


(***************************************************************************)
(* AddressNormalizer: LocalGeocoder.parse_address                          *)
(***************************************************************************)
ZipTokens == {"77001", "77002"}                 \* words matching \d{5}(-\d{4})?
NumberTokens == {"123", "125"}                  \* words matching \d+[a-z]?
StateTokens == {"tx", "texas"}
SuiteKeywords == {"suite", "ste", "unit", "apt", "apartment", "#"}
Comma == ","

RemoveAll(a, t) == SelectSeq(a, LAMBDA x : x # t)

\* str.replace(k + " " + v, ""): every occurrence of the two-word match goes
RECURSIVE RemovePair(_, _, _)
RemovePair(a, k, v) ==
    IF Len(a) < 2 THEN a
    ELSE IF a[1] = k /\ a[2] = v THEN RemovePair(Tail(Tail(a)), k, v)
    ELSE <<a[1]>> \o RemovePair(Tail(a), k, v)

\* the suite pattern has no \b: it also matches inside a word that holds a
\* keyword followed by letters ('ste' + 'r' in 'webster'); before is what
\* str.replace of the match leaves of the word
SuiteInside(w) ==
    CASE w = "webster" -> [before |-> "web", suite |-> "r"]
      [] OTHER -> [before |-> w, suite |-> ""]

\* first i where the suite pattern matches: a[i] a suite keyword followed by
\* an alphanumeric word, or a word the pattern matches inside
RECURSIVE SuiteIndex(_, _)
SuiteIndex(a, i) ==
    IF i > Len(a) THEN 0
    ELSE IF \/ i < Len(a) /\ a[i] \in SuiteKeywords /\ a[i + 1] # Comma
            \/ SuiteInside(a[i]).suite # ""
         THEN i
    ELSE SuiteIndex(a, i + 1)

\* address.split(',') with the empty parts dropped
RECURSIVE SplitParts(_, _)
SplitParts(a, cur) ==
    IF a = <<>> THEN (IF cur = <<>> THEN <<>> ELSE <<cur>>)
    ELSE IF Head(a) = Comma
         THEN (IF cur = <<>> THEN <<>> ELSE <<cur>>) \o SplitParts(Tail(a), <<>>)
         ELSE SplitParts(Tail(a), Append(cur, Head(a)))

StreetTypeCanonical(w) ==
    CASE w \in {"st", "str", "street"} -> "street"
      [] w \in {"ave", "av", "avenue"} -> "avenue"
      [] w \in {"blvd", "boulevard", "bv"} -> "boulevard"
      [] w \in {"rd", "road"} -> "road"
      [] w \in {"dr", "drive"} -> "drive"
      [] w \in {"ln", "lane"} -> "lane"
      [] w \in {"ct", "court"} -> "court"
      [] w \in {"cir", "circle"} -> "circle"
      [] w \in {"pl", "place"} -> "place"
      [] w \in {"pkwy", "parkway"} -> "parkway"
      [] OTHER -> w

normalize_street_name(street_name) ==
    IF street_name = <<>> THEN street_name
    ELSE LET n == Len(street_name)
             last_word == Lower(street_name[n])
         IN  title(SubSeq(street_name, 1, n - 1) \o <<StreetTypeCanonical(last_word)>>)

normalize_city_name(city_name) ==
    IF city_name = <<>> THEN city_name
    ELSE LET city_lower == lower(city_name)
         IN  CASE city_lower \in {<<"houston">>, <<"htown">>, <<"space", "city">>}
                    -> <<"Houston">>
               [] city_lower \in {<<"sugar", "land">>, <<"sugarland">>}
                    -> <<"Sugar", "Land">>
               [] city_lower \in {<<"the", "woodlands">>, <<"woodlands">>}
                    -> <<"The", "Woodlands">>
               [] OTHER -> title(city_name)

\* ', '.join(parts)
RECURSIVE JoinComma(_)
JoinComma(parts) ==
    IF parts = <<>> THEN <<>>
    ELSE IF Len(parts) = 1 THEN parts[1]
    ELSE parts[1] \o <<Comma>> \o JoinComma(Tail(parts))

AddressComponents(street_number, street_name, suite, city, state, zip_code, normalized) ==
    [street_number |-> street_number, street_name |-> street_name, suite |-> suite,
     city |-> city, state |-> state, zip_code |-> zip_code, normalized |-> normalized]

\* the one element of a singleton set: {e(x) : x \in {v}} evaluates v once
Only(S) == CHOOSE x \in S : TRUE

\* stage 1: the first ZIP, and the text with every occurrence of it removed
ExtractZip(address) ==
    LET zi == FirstIndex(ZipTokens, address, 1)
    IN  IF zi > 0 THEN [zip_code |-> address[zi], rest |-> RemoveAll(address, address[zi])]
        ELSE [zip_code |-> "", rest |-> address]

\* stage 2: the first tx|texas word, and the text with every occurrence removed
ExtractState(address) ==
    LET si == FirstIndex(StateTokens, address, 1)
    IN  IF si > 0 THEN [state |-> "TX", rest |-> RemoveAll(address, address[si])]
        ELSE [state |-> "", rest |-> address]

\* stage 3: the first suite match, and the text with every occurrence removed
ExtractSuite(address) ==
    LET ui == SuiteIndex(address, 1)
    IN  IF ui = 0 THEN [suite |-> "", rest |-> address]
        ELSE IF SuiteInside(address[ui]).suite # ""
        THEN [suite |-> SuiteInside(address[ui]).suite,
              rest |-> [j \in 1..Len(address) |-> SuiteInside(address[j]).before]]
        ELSE [suite |-> address[ui + 1],
              rest |-> RemovePair(address, address[ui], address[ui + 1])]

\* stages 4 to 7: street number, street name, city and the normalized rendering
\* absent (None) string fields are "", absent word sequences are << >>
AssembleComponents(address_text, zip_code, state, suite, parts) ==
    IF Len(parts) = 0
    THEN AddressComponents("", <<>>, suite, <<>>, state, zip_code, None)
    ELSE
    LET street_part == parts[1]
        number_match == Len(street_part) >= 2 /\ street_part[1] \in NumberTokens
        street_number == IF number_match THEN street_part[1] ELSE ""
        street_name == normalize_street_name(
                           IF number_match THEN Tail(street_part) ELSE street_part)
        city == IF Len(parts) > 1 THEN normalize_city_name(parts[2]) ELSE <<>>
        normalized_street == (IF street_number # "" THEN <<street_number>> ELSE <<>>)
                             \o street_name
        full_normalized_parts ==
            (IF normalized_street # <<>> THEN <<normalized_street>> ELSE <<>>)
            \o (IF city # <<>> THEN <<city>> ELSE <<>>)
            \o (IF state # "" THEN <<(<<state>>)>> ELSE <<>>)
            \o (IF zip_code # "" THEN <<(<<zip_code>>)>> ELSE <<>>)
    IN  AddressComponents(street_number, street_name, suite, city,
                          IF state # "" THEN state ELSE "TX", zip_code,
                          IF full_normalized_parts # <<>>
                          THEN JoinComma(full_normalized_parts) ELSE address_text)

parse_address(address_text) ==
    IF address_text = <<>> THEN AddressComponents("", <<>>, "", <<>>, "", "", None)
    ELSE Only({Only({Only({Only({
             AssembleComponents(address_text, z.zip_code, st.state, su.suite, parts)
                 : parts \in {SplitParts(su.rest, <<>>)}})
                 : su \in {ExtractSuite(st.rest)}})
                 : st \in {ExtractState(z.rest)}})
                 : z \in {ExtractZip(lower(address_text))}})

(***************************************************************************)
(* NameNormalizer: normalize_business_name, calculate_business_name_similarity *)
(***************************************************************************)
\* the suffix list, in the order the loop visits it
Suffixes == <<"llc", "inc", "corp", "ltd", "co", "company", "corporation",
              "incorporated", "limited", "restaurant", "cafe", "bar", "grill">>

\* re.sub(r'[^\w\s]', ' ', word).split(): the words left of one word
Depunct(t) ==
    CASE t = "joe's" -> <<"joe", "s">>
      [] t = "mary's" -> <<"mary", "s">>
      [] t = "inc." -> <<"inc">>
      [] t = "&" -> <<>>
      [] t = "," -> <<>>
      [] OTHER -> <<t>>

\* re.sub(rf'\b{suffix}\.?\s*$', '', name).strip()
StripSuffix(name, suffix) ==
    IF name # <<>> /\ name[Len(name)] \in {suffix, suffix \o "."}
    THEN SubSeq(name, 1, Len(name) - 1)
    ELSE name

\* for suffix in suffixes: one pass over the list, each suffix tried once
RECURSIVE StripSuffixes(_, _)
StripSuffixes(name, i) ==
    IF i > Len(Suffixes) THEN name
    ELSE StripSuffixes(StripSuffix(name, Suffixes[i]), i + 1)

normalize_business_name(business_name) ==
    IF business_name = <<>> THEN business_name
    ELSE LET stripped == StripSuffixes(lower(business_name), 1)
         IN  FlattenSeq([i \in 1..Len(stripped) |-> Depunct(stripped[i])])

(***************************************************************************)
(* Address and name inputs, and the parse of each (computed once)          *)
(***************************************************************************)
A_Full == <<"123", "Main", "St", ",", "Houston", ",", "TX", "77001">>
A_FullLower == <<"123", "main", "street", ",", "houston", ",", "tx", "77001">>
A_LowerSt == <<"123", "main", "st", ",", "houston", ",", "tx", "77001">>
A_NoZip == <<"123", "Main", "St", ",", "Houston", ",", "TX">>
A_StreetOnly == <<"123", "Main", "St">>
A_NoNumber == <<"Main", "St", ",", "Houston">>
A_OtherNumber == <<"125", "Main", "St", ",", "Houston", ",", "TX", "77001">>
A_OtherZip == <<"123", "Main", "St", ",", "Houston", ",", "TX", "77002">>
A_Other == <<"125", "Oak", "Ave", ",", "Dallas", ",", "TX", "77002">>
A_SuiteA == <<"123", "Main", "St", "Suite", "A", ",", "Houston", ",", "TX", "77001">>
A_SuiteB == <<"123", "Main", "St", "Suite", "B", ",", "Houston", ",", "TX", "77001">>
A_ShortSuiteA == <<"123", "Main", "St", "Suite", "A">>
A_WebsterSuiteA == <<"123", "Webster", "St", "Suite", "A">>
A_WebsterSuiteB == <<"123", "Webster", "St", "Suite", "B">>
A_ShortSuiteB == <<"123", "Main", "St", "Suite", "B">>
A_StateZipOnly == <<"TX", "77001">>
A_Empty == <<>>

AddressPool == {A_Full, A_FullLower, A_LowerSt, A_NoZip, A_StreetOnly, A_NoNumber, A_OtherNumber,
                A_OtherZip, A_Other, A_SuiteA, A_SuiteB, A_ShortSuiteA, A_ShortSuiteB,
                A_StateZipOnly, A_WebsterSuiteA, A_WebsterSuiteB, A_Empty}

N_Joes == <<"Joe's", "Pizza">>
N_JoesLLC == <<"Joe's", "Pizza", "LLC">>
N_JoesPizzeria == <<"Joe's", "Pizzeria">>
N_Marys == <<"Mary's", "Burgers">>
N_Different == <<"Different", "Name">>
N_JoesHouston == <<"Joe's", "Pizza", "Houston">>
N_JoesRestaurantLLC == <<"Joe's", "Pizza", "Restaurant", "LLC">>
N_JoesLLCRestaurant == <<"Joe's", "Pizza", "LLC", "Restaurant">>
N_Empty == <<>>

NamePool == {N_Joes, N_JoesLLC, N_JoesPizzeria, N_JoesHouston, N_Marys, N_Different,
             N_JoesRestaurantLLC, N_JoesLLCRestaurant}

ParsedAddress == [a \in AddressPool |-> parse_address(a)]

NormalizedName == [n \in NamePool \cup {N_Empty} |-> normalize_business_name(n)]

(***************************************************************************)
(* AddressSimilarity: LocalGeocoder.calculate_address_similarity           *)
(* Weights are in tenths.                                                  *)
(***************************************************************************)
W_STREET_NUMBER == 4
W_STREET_NAME == 3
W_CITY == 2
W_ZIP == 1

\* _string_similarity: 1 on equal strings, else the Jaccard index of the word sets
string_similarity(s1, s2) ==
    IF s1 = <<>> \/ s2 = <<>> THEN FracZero
    ELSE IF s1 = s2 THEN FracOne
    ELSE LET tokens1 == Range(s1)
             tokens2 == Range(s2)
         IN  Frac(Cardinality(tokens1 \cap tokens2), Cardinality(tokens1 \cup tokens2))

\* variant: a field counts only when both sides have it
FieldWeightBothOnly(w, has1, has2) ==
    IF has1 /\ has2 THEN w ELSE 0

\* the weight a field adds to total_weight, given which sides have the field
FieldWeight(w, has1, has2) ==
    IF has1 /\ has2 THEN w
    ELSE IF has1 \/ has2 THEN w
    ELSE 0

\* variant: the street name's weight is left out of total_weight
total_weight_without_street_name(addr1, addr2) ==
      FieldWeight(W_STREET_NUMBER, addr1.street_number # "", addr2.street_number # "")
    + FieldWeight(W_CITY, addr1.city # <<>>, addr2.city # <<>>)
    + FieldWeight(W_ZIP, addr1.zip_code # "", addr2.zip_code # "")

\* total_weight, in tenths
total_weight(addr1, addr2) ==
      FieldWeight(W_STREET_NUMBER, addr1.street_number # "", addr2.street_number # "")
    + FieldWeight(W_STREET_NAME, addr1.street_name # <<>>, addr2.street_name # <<>>)
    + FieldWeight(W_CITY, addr1.city # <<>>, addr2.city # <<>>)
    + FieldWeight(W_ZIP, addr1.zip_code # "", addr2.zip_code # "")

\* score as a fraction of tenths: [n, d] stands for (n/d)/10
\* the street-name term of the score: the similarity of the two street names
street_similarity(addr1, addr2) ==
    IF addr1.street_name # <<>> /\ addr2.street_name # <<>>
    THEN string_similarity(lower(addr1.street_name), lower(addr2.street_name))
    ELSE FracZero

\* the exact-match terms of the score, in tenths
exact_score(addr1, addr2) ==
      (IF addr1.street_number # "" /\ addr2.street_number # ""
          /\ Lower(addr1.street_number) = Lower(addr2.street_number)
       THEN W_STREET_NUMBER ELSE 0)
    + (IF addr1.city # <<>> /\ addr2.city # <<>>
          /\ lower(addr1.city) = lower(addr2.city)
       THEN W_CITY ELSE 0)
    + (IF addr1.zip_code # "" /\ addr2.zip_code # ""
          /\ addr1.zip_code = addr2.zip_code
       THEN W_ZIP ELSE 0)

ScoreSum(exact, street_sim) ==
    Frac(exact * street_sim.d + W_STREET_NAME * street_sim.n, street_sim.d)

\* score as a fraction of tenths: [n, d] stands for (n/d)/10
address_score(addr1, addr2) ==
    ScoreSum(exact_score(addr1, addr2), street_similarity(addr1, addr2))

\* score / total_weight if total_weight > 0 else 0.0
ScoreOverWeight(score, tw) ==
    IF tw > 0 THEN Frac(score.n, score.d * tw) ELSE FracZero

parsed_similarity(addr1, addr2) ==
    ScoreOverWeight(address_score(addr1, addr2), total_weight(addr1, addr2))

calculate_address_similarity(address1, address2) ==
    IF address1 = <<>> \/ address2 = <<>> THEN FracZero
    ELSE parsed_similarity(ParsedAddress[address1], ParsedAddress[address2])


\* a in b for strings, on word sequences: a is a contiguous run of b
IsSubstring(a, b) ==
    \E i \in 0..(Len(b) - Len(a)) : SubSeq(b, i + 1, i + Len(a)) = a

NAME_BOOST_N == 1
NAME_BOOST_D == 5

\* min(1.0, jaccard + 0.2), jaccard being i/u
BoostedJaccard(i, u) ==
    IF NAME_BOOST_D * i + NAME_BOOST_N * u >= NAME_BOOST_D * u
    THEN FracOne
    ELSE Frac(NAME_BOOST_D * i + NAME_BOOST_N * u, NAME_BOOST_D * u)

\* variant: the boost only when the first name is contained in the second
token_similarity_first_in_second(norm_name1, norm_name2, tokens1, tokens2) ==
    IF tokens1 = {} \/ tokens2 = {} THEN FracZero
    ELSE IF IsSubstring(norm_name1, norm_name2)
    THEN BoostedJaccard(Cardinality(tokens1 \cap tokens2), Cardinality(tokens1 \cup tokens2))
    ELSE Frac(Cardinality(tokens1 \cap tokens2), Cardinality(tokens1 \cup tokens2))

\* the Jaccard index of the two word sets, boosted when one name contains the other
token_similarity(norm_name1, norm_name2, tokens1, tokens2) ==
    IF tokens1 = {} \/ tokens2 = {} THEN FracZero
    ELSE IF IsSubstring(norm_name1, norm_name2) \/ IsSubstring(norm_name2, norm_name1)
    THEN BoostedJaccard(Cardinality(tokens1 \cap tokens2), Cardinality(tokens1 \cup tokens2))
    ELSE Frac(Cardinality(tokens1 \cap tokens2), Cardinality(tokens1 \cup tokens2))

normalized_name_similarity(norm_name1, norm_name2) ==
    IF norm_name1 = norm_name2 THEN FracOne
    ELSE token_similarity(norm_name1, norm_name2, Range(norm_name1), Range(norm_name2))

calculate_business_name_similarity(name1, name2) ==
    IF name1 = <<>> \/ name2 = <<>> THEN FracZero
    ELSE normalized_name_similarity(NormalizedName[name1], NormalizedName[name2])

(***************************************************************************)
(* MatchClassifier: ResolverAgent._is_deterministic_match                  *)
(* A phone is the sequence of its characters, an email one word.           *)
(***************************************************************************)
Digits == {"0", "1", "2", "3", "4", "5", "6", "7", "8", "9"}
PHONE_DIGITS == 10

\* re.sub(r'\D', '', phone)
digits_only(phone) == SelectSeq(phone, LAMBDA c : c \in Digits)

\* s[-PHONE_DIGITS:]
LastDigits(d) == SubSeq(d, Len(d) - PHONE_DIGITS + 1, Len(d))

\* re.sub of the suite patterns (each needs white space before the keyword, so
\* a keyword that starts the address stays)
RECURSIVE StripSuites(_)
StripSuites(a) ==
    IF Len(a) < 2 THEN a
    ELSE IF Lower(a[1]) \in SuiteKeywords /\ a[2] # Comma
         THEN StripSuites(Tail(Tail(a)))
         ELSE <<a[1]>> \o StripSuites(Tail(a))

extract_base_address(address) ==
    IF address = <<>> THEN <<>>
    ELSE <<address[1]>> \o StripSuites(Tail(address))

\* variant: the comparison without .lower()
ExactAddressRuleCaseSensitive(record1, record2) ==
    record1.address # <<>> /\ record2.address # <<>> /\ record1.address = record2.address

ExactAddressRule(record1, record2) ==
    LET addr1 == lower(record1.address)
        addr2 == lower(record2.address)
    IN  addr1 # <<>> /\ addr2 # <<>> /\ addr1 = addr2

\* variant: the digits compared without the length test
PhoneRuleAnyLength(record1, record2) ==
    /\ record1.phone # <<>>
    /\ record2.phone # <<>>
    /\ LET digits1 == digits_only(record1.phone)
           digits2 == digits_only(record2.phone)
       IN  IF Len(digits1) >= PHONE_DIGITS /\ Len(digits2) >= PHONE_DIGITS
           THEN LastDigits(digits1) = LastDigits(digits2)
           ELSE digits1 = digits2

PhoneRule(record1, record2) ==
    /\ record1.phone # <<>>
    /\ record2.phone # <<>>
    /\ LET digits1 == digits_only(record1.phone)
           digits2 == digits_only(record2.phone)
       IN  /\ Len(digits1) >= PHONE_DIGITS
           /\ Len(digits2) >= PHONE_DIGITS
           /\ LastDigits(digits1) = LastDigits(digits2)

EmailRule(record1, record2) ==
    /\ record1.email # ""
    /\ record2.email # ""
    /\ Lower(record1.email) = Lower(record2.email)

\* rule 4
HighSimilarityRule(addr_similarity, name_similarity) ==
    FracGT(addr_similarity, 9, 10) /\ FracGT(name_similarity, 8, 10)

SameBase(addr1_base, addr2_base) ==
    addr1_base # <<>> /\ addr2_base # <<>> /\ lower(addr1_base) = lower(addr2_base)

\* rule 5
SuiteDifferenceRule(addr_similarity, name_similarity, address1, address2) ==
    /\ FracGT(name_similarity, 95, 100)
    /\ FracGT(addr_similarity, 7, 10)
    /\ SameBase(extract_base_address(address1), extract_base_address(address2))

SimilarityRulesOf(addr_similarity, name_similarity, address1, address2) ==
    \/ HighSimilarityRule(addr_similarity, name_similarity)
    \/ SuiteDifferenceRule(addr_similarity, name_similarity, address1, address2)

SimilarityRules(record1, record2) ==
    SimilarityRulesOf(calculate_address_similarity(record1.address, record2.address),
                      calculate_business_name_similarity(record1.venue_name,
                                                         record2.venue_name),
                      record1.address, record2.address)

is_deterministic_match(record1, record2) ==
    \/ ExactAddressRule(record1, record2)
    \/ PhoneRule(record1, record2)
    \/ EmailRule(record1, record2)
    \/ SimilarityRules(record1, record2)


(***************************************************************************)
(* Records and input pools                                                 *)
(***************************************************************************)
FlagKeys == {"tabc", "hc_permit", "hc_health"}
SourceFlagKeys == FlagKeys \cup {"houston_permit"}
NoFlags == [k \in SourceFlagKeys |-> ""]

\* a flag map with the given tabc, hc_permit and hc_health values
Flags(tabc, hc_permit, hc_health) ==
    [k \in SourceFlagKeys |->
        CASE k = "tabc" -> tabc
          [] k = "hc_permit" -> hc_permit
          [] k = "hc_health" -> hc_health
          [] OTHER -> ""]

Rec(id, name, addr, phone, email, flags) ==
    [candidate_id |-> id, venue_name |-> name, legal_name |-> <<>>, address |-> addr,
     phone |-> phone, email |-> email, source_flags |-> flags, signals |-> {}]

P_None == <<>>
P_Paren == <<"(", "7", "1", "3", ")", " ", "5", "5", "5", "-", "0", "1", "2", "3">>
P_Dash == <<"7", "1", "3", "-", "5", "5", "5", "-", "0", "1", "2", "3">>
P_Country == <<"1", "-", "7", "1", "3", "-", "5", "5", "5", "-", "0", "1", "2", "3">>
P_Short == <<"5", "5", "5", "-", "0", "1", "2", "3">>
P_Other == <<"2", "8", "1", "-", "5", "5", "5", "-", "0", "4", "5", "6">>

PhonePool == {P_None, P_Paren, P_Dash, P_Country, P_Short, P_Other}

EmailPool == {"", "info@joes.com", "INFO@joes.com", "info@marys.com"}

\* records that vary in address and name and carry no contact data
AddressFocusPool ==
    {Rec("x", n, a, P_None, "", NoFlags) : n \in NamePool, a \in AddressPool}

\* contact data: each phone alone, each email alone, and one pair of both
ContactPool ==
    {<<ph, "">> : ph \in PhonePool} \cup {<<P_None, e>> : e \in EmailPool}
    \cup {<<P_Paren, "info@joes.com">>}

\* records that vary in contact data, at three unrelated venues
ContactFocusPool ==
    {Rec("x", N_Joes, A_Full, c[1], c[2], NoFlags) : c \in ContactPool}
    \cup {Rec("x", N_Marys, A_Other, c[1], c[2], NoFlags) : c \in ContactPool}
    \cup {Rec("x", N_Different, A_Other, c[1], c[2], NoFlags) : c \in ContactPool}

PairPool == AddressFocusPool \cup ContactFocusPool

(***************************************************************************)
(* Pair functions applied to two records                                   *)
(***************************************************************************)
NoFrac == Frac(0, 0)

\* an ETARuleResult; None is NoResult, an exception out of the call is Raised
Result(rule_name, eta_start, eta_end, eta_days, confidence_0_1) ==
    [rule_name |-> rule_name, eta_start |-> eta_start, eta_end |-> eta_end,
     eta_days |-> eta_days, confidence_0_1 |-> confidence_0_1]
NoResult == Result("None", 0, 0, 0, 0)
Raised == Result("raise", 0, 0, 0, 0)
\* the oracle has not been asked
NoOracleResponse == [kind |-> "none", items |-> <<>>]

\* no engine call in progress
RulesIdle ==
    /\ rule_in = <<>>
    /\ rule_out = NoResult
    /\ lead_out = FALSE
    /\ rules_pc = "idle"

\* no agent call in progress
BatchIdle ==
    /\ batch = <<>>
    /\ variant = "batch"
    /\ rule_results = <<>>
    /\ response_str = NoOracleResponse
    /\ final_results = <<>>
    /\ qualified = <<>>
    /\ eta_pc = "idle"
    /\ batch_began = 0

\* no engine and no agent
EtaIdle ==
    /\ clock = 0
    /\ today = 0
    /\ RulesIdle
    /\ BatchIdle
    /\ batch_no = 0

PairIdle ==
    /\ rec1 = Rec("x", N_Empty, A_Empty, P_None, "", NoFlags)
    /\ rec2 = Rec("x", N_Empty, A_Empty, P_None, "", NoFlags)
    /\ pair_pc = "idle"
    /\ addr_sim_out = NoFrac
    /\ name_sim_out = NoFrac
    /\ match_out = FALSE

\* no resolve_entities call in progress
ResolverIdle ==
    /\ candidates = <<>>
    /\ unmatched = <<>>
    /\ groups = <<>>
    /\ ambiguous_pairs = <<>>
    /\ pair_idx = 0
    /\ final_groups = <<>>
    /\ llm_response = [kind |-> "none", same_entity |-> [t |-> "null", v |-> 0],
                       confidence_0_1 |-> [t |-> "null", v |-> 0]]
    /\ merged_candidates = <<>>
    /\ res_pc = "idle"
    /\ seed_log = <<>>
    /\ confident_yes = <<>>

PairInit ==
    /\ rec1 \in PairPool
    /\ rec2 \in PairPool
    /\ pair_pc = "input"
    /\ addr_sim_out = NoFrac
    /\ name_sim_out = NoFrac
    /\ match_out = FALSE
    /\ ResolverIdle
    /\ EtaIdle

CalculateAddressSimilarity ==
    /\ pair_pc = "input"
    /\ addr_sim_out' = calculate_address_similarity(rec1.address, rec2.address)
    /\ pair_pc' = "similarity"
    /\ UNCHANGED <<rec1, rec2, name_sim_out, match_out, resolverVars, etaAllVars>>

CalculateBusinessNameSimilarity ==
    /\ pair_pc = "input"
    /\ name_sim_out' = calculate_business_name_similarity(rec1.venue_name, rec2.venue_name)
    /\ pair_pc' = "name_similarity"
    /\ UNCHANGED <<rec1, rec2, addr_sim_out, match_out, resolverVars, etaAllVars>>

IsDeterministicMatch ==
    /\ pair_pc = "input"
    /\ match_out' = is_deterministic_match(rec1, rec2)
    /\ pair_pc' = "match"
    /\ UNCHANGED <<rec1, rec2, addr_sim_out, name_sim_out, resolverVars, etaAllVars>>

PairNext ==
    \/ CalculateAddressSimilarity
    \/ CalculateBusinessNameSimilarity
    \/ IsDeterministicMatch

SpecPair == PairInit /\ [][PairNext]_vars


(***************************************************************************)
(* AmbiguityDetector: ResolverAgent._is_ambiguous_pair                     *)
(***************************************************************************)
\* flag keys set (truthy) on both records
SharedFlagKeys(flags1, flags2) ==
    {k \in FlagKeys : flags1[k] # "" /\ flags2[k] # ""}

\* common_flags / total_flags > 0.5 over the keys both records set
FlagsAgree(flags1, flags2) ==
    LET total_flags == Cardinality(SharedFlagKeys(flags1, flags2))
        common_flags == Cardinality({k \in SharedFlagKeys(flags1, flags2) :
                                        flags1[k] = flags2[k]})
    IN  total_flags > 0 /\ 2 * common_flags > total_flags

\* moderate similarity on either dimension
ModerateSimilarity(addr_sim, name_sim) ==
    \/ FracGT(addr_sim, 4, 10) /\ FracLT(addr_sim, 9, 10) /\ FracGT(name_sim, 3, 10)
    \/ FracGT(name_sim, 3, 10) /\ FracLT(name_sim, 8, 10) /\ FracGT(addr_sim, 4, 10)

is_ambiguous_pair(record1, record2) ==
    \/ ModerateSimilarity(calculate_address_similarity(record1.address, record2.address),
                          calculate_business_name_similarity(record1.venue_name,
                                                             record2.venue_name))
    \/ FlagsAgree(record1.source_flags, record2.source_flags)

(***************************************************************************)
(* Resolver inputs: lists of distinct records of a small pool              *)
(***************************************************************************)
MaxRecords == 3

\* the signals dictionaries the sources give, as sets of <<key, value>>
TabcSourceSignals == {<<"tabc_status", "Original Pending">>, <<"tabc_dates", "2024-01-15">>}
PermitSourceSignals ==
    {<<"permit_types", "Final Inspection Scheduled">>, <<"milestone_dates", "2024-02-01">>}
SocrataSourceSignals == {<<"milestone_dates", "2024-03-01">>}

R_Joes ==
    [Rec("r1", N_Joes, A_Full, P_Paren, "", Flags("Pending", "", ""))
        EXCEPT !.signals = TabcSourceSignals]
R_JoesLLC ==
    [Rec("r2", N_JoesLLC, A_FullLower, P_None, "", Flags("Pending", "", ""))
        EXCEPT !.signals = PermitSourceSignals]
R_Pizzeria ==
    [Rec("r3", N_JoesPizzeria, A_OtherNumber, P_Dash, "", Flags("Pending", "", ""))
        EXCEPT !.signals = SocrataSourceSignals]
R_Marys ==
    [Rec("r4", N_Marys, A_Other, P_None, "info@marys.com", Flags("Pending", "Issued", ""))
        EXCEPT !.signals = TabcSourceSignals]
R_MarysZip ==
    [Rec("r5", N_Marys, A_StateZipOnly, P_Other, "", Flags("", "Issued", ""))
        EXCEPT !.legal_name = <<"Mary's", "Burgers", "LLC">>,
               !.signals = PermitSourceSignals]
R_JoesSuite == Rec("r6", N_Joes, A_SuiteA, P_None, "INFO@marys.com", Flags("Active", "", ""))
\* at R_Joes's address in lower case, under another name and from another source
R_OtherName == Rec("r7", N_Different, A_LowerSt, P_None, "", Flags("", "Issued", ""))

ResolverPool ==
    {R_Joes, R_JoesLLC, R_Pizzeria, R_Marys, R_MarysZip, R_JoesSuite, R_OtherName}

\* all lists of at most n distinct records of the pool
RECURSIVE RecordLists(_)
RecordLists(n) ==
    IF n = 0 THEN {<<>>}
    ELSE RecordLists(n - 1)
         \cup {Append(l, r) : l \in {x \in RecordLists(n - 1) : Len(x) = n - 1},
                              r \in ResolverPool}

\* lists of four records that Pass 1 puts into three groups, one of them of
\* two records, with a flagged pair whose first group an earlier pair empties
FourRecordLists ==
    {<<R_MarysZip, R_Marys, R_Joes, R_JoesLLC>>,
     <<R_Pizzeria, R_Marys, R_MarysZip, R_JoesSuite>>,
     <<R_Joes, R_Marys, R_MarysZip, R_OtherName>>}

CandidateLists ==
    {l \in RecordLists(MaxRecords) : \A i, j \in 1..Len(l) : i # j => l[i] # l[j]}
        \cup FourRecordLists

\* the two pair predicates on the pool, computed once
DeterministicMatch ==
    [p \in ResolverPool \X ResolverPool |-> is_deterministic_match(p[1], p[2])]
AmbiguousPair ==
    [p \in ResolverPool \X ResolverPool |-> is_ambiguous_pair(p[1], p[2])]

(***************************************************************************)
(* ResolutionOrchestrator: ResolverAgent.resolve_entities                  *)
(* Group indices are 1-based here (0-based in the code).                   *)
(***************************************************************************)
\* Pass 1, one iteration of `while unmatched`: the seed and the records of the
\* rest that match the seed, in order
SeedGroupFirstMatchOnly(candidate, rest) ==
    LET hits == {i \in 1..Len(rest) : DeterministicMatch[<<candidate, rest[i]>>]}
    IN  IF hits = {} THEN <<candidate>>
        ELSE <<candidate, rest[CHOOSE i \in hits : \A k \in hits : i <= k]>>

SeedGroup(candidate, rest) ==
    <<candidate>> \o SelectSeq(rest, LAMBDA other : DeterministicMatch[<<candidate, other>>])

SeedRemaining(candidate, rest) ==
    SelectSeq(rest, LAMBDA other : ~DeterministicMatch[<<candidate, other>>])

\* _find_ambiguous_pairs, inner loops: the first ambiguous record pair of two groups
\* the first of a set of index pairs in loop order (outer index, then inner)
FirstPair(hits) ==
    CHOOSE p \in hits : \A q \in hits : p[1] < q[1] \/ (p[1] = q[1] /\ p[2] <= q[2])

PairEntry(gs, i, j, p) == <<i, j, gs[i][p[1]], gs[j][p[2]]>>

FirstOf(gs, i, j, hits) ==
    IF hits = {} THEN <<>> ELSE <<PairEntry(gs, i, j, FirstPair(hits))>>

FirstAmbiguous(gs, i, j) ==
    FirstOf(gs, i, j, {p \in (1..Len(gs[i])) \X (1..Len(gs[j])) :
                          AmbiguousPair[<<gs[i][p[1]], gs[j][p[2]]>>]})

\* _find_ambiguous_pairs, outer loops: group pairs i < j in order
RECURSIVE find_ambiguous_pairs(_, _, _)
find_ambiguous_pairs(gs, i, j) ==
    IF i > Len(gs) THEN <<>>
    ELSE IF j > Len(gs) THEN find_ambiguous_pairs(gs, i + 1, i + 2)
    ELSE FirstAmbiguous(gs, i, j) \o find_ambiguous_pairs(gs, i, j + 1)

\* JSON values of an oracle answer: [t: type, v: value]; booleans are 0/1,
\* numbers are in hundredths
JNull == [t |-> "null", v |-> 0]
JBool(b) == [t |-> "bool", v |-> IF b THEN 1 ELSE 0]
JNum(n) == [t |-> "num", v |-> n]
JStr == [t |-> "str", v |-> 0]

\* what llm._call does: raises, or returns text that is not JSON, JSON that is
\* not an object, or a JSON object
Response(kind, same_entity, confidence_0_1) ==
    [kind |-> kind, same_entity |-> same_entity, confidence_0_1 |-> confidence_0_1]
NoResponse == Response("none", JNull, JNull)

ResponsePool ==
    {Response("raise", JNull, JNull),
     Response("not_json", JNull, JNull),
     Response("json_list", JNull, JNull),
     Response("dict", JBool(TRUE), JNum(90)),
     Response("dict", JBool(TRUE), JNum(70)),
     Response("dict", JBool(FALSE), JNum(90)),
     Response("dict", JStr, JNum(90)),
     Response("dict", JBool(TRUE), JStr),
     Response("dict", JNull, JNull)}

LLM_MERGE_CONFIDENCE == 70

\* variant: the confidence test with >= in place of >
llm_says_merge_at_least(response) ==
    /\ response.kind = "dict"
    /\ response.same_entity.t = "bool" /\ response.same_entity.v = 1
    /\ response.confidence_0_1.t \in {"num", "bool"}
    /\ (IF response.confidence_0_1.t = "num" THEN response.confidence_0_1.v
        ELSE 100 * response.confidence_0_1.v) >= LLM_MERGE_CONFIDENCE

\* _evaluate_with_llm followed by the test of _apply_llm_matching; a raise of
\* llm._call or of result.get (JSON that is not an object) is caught by the
\* caller's except, a JSONDecodeError gives same_entity False
llm_says_merge(response) ==
    /\ response.kind = "dict"
    /\ response.same_entity.t = "bool" /\ response.same_entity.v = 1
    /\ LET confidence == IF response.confidence_0_1.t = "num"
                         THEN response.confidence_0_1.v
                         ELSE IF response.confidence_0_1.t = "bool"
                         THEN 100 * response.confidence_0_1.v
                         ELSE 0
       IN  confidence > LLM_MERGE_CONFIDENCE

\* variant: only the first record of group2 moves, the others stay behind
MergeGroupsFirstRecordOnly(gs, group1_idx, group2_idx) ==
    IF gs[group2_idx] = <<>> THEN gs
    ELSE [gs EXCEPT ![group1_idx] = Append(gs[group1_idx], Head(gs[group2_idx])),
                    ![group2_idx] = Tail(gs[group2_idx])]

\* variant: group2 is appended to group1 but not emptied
MergeGroupsKeepSecond(gs, group1_idx, group2_idx) ==
    [gs EXCEPT ![group1_idx] = gs[group1_idx] \o gs[group2_idx]]

\* group1.extend(group2); final_groups[group2_idx] = []
MergeGroups(gs, group1_idx, group2_idx) ==
    [gs EXCEPT ![group1_idx] = gs[group1_idx] \o gs[group2_idx],
               ![group2_idx] = <<>>]

\* len() of a word: its number of characters
CharLen(t) ==
    CASE t \in {",", "A", "B", "_"} -> 1
      [] t \in {"CO", "St", "TX", "co", "st", "tx"} -> 2
      [] t \in {"123", "125", "Ave", "LLC", "Oak"} -> 3
      [] t \in {"Food", "Main", "Name", "Plan", "date", "food", "main", "name", "plan"} -> 4
      [] t \in {"77001", "77002", "Final", "Joe's", "Pizza", "Suite", "filed", "final"} -> 5
      [] t \in {"Active", "Dallas", "Denied", "Mary's", "Permit", "Review", "Tenant", "Voided", "active", "denied", "issued", "permit", "review", "status", "street", "tenant", "voided"} -> 6
      [] t \in {"Burgers", "Expired", "Houston", "Pending", "Service", "Webster", "expired", "houston", "pending", "service", "unknown"} -> 7
      [] t \in {"Approved", "Building", "Original", "Pizzeria", "approved", "building", "original", "received"} -> 8
      [] t \in {"Build-Out", "Different", "Scheduled", "build-out", "different", "scheduled"} -> 9
      [] t \in {"Inspection", "inspection"} -> 10
      [] t \in {"application"} -> 11

\* len() of a text: the characters of its words, one blank before each word
\* but the first, none before a comma and none around the "_" of a snake_case
\* word
RECURSIVE TextLen(_)
TextLen(s) ==
    IF s = <<>> THEN 0
    ELSE CharLen(Head(s))
         + (IF Len(s) > 1 /\ s[2] # Comma /\ s[1] # "_" /\ s[2] # "_" THEN 1 ELSE 0)
         + TextLen(Tail(s))

\* all_source_flags: per key the value of the last record that sets it
MergeFlags(records) ==
    [k \in SourceFlagKeys |->
        LET setters == {i \in 1..Len(records) : records[i].source_flags[k] # ""}
        IN  IF setters = {} THEN ""
            ELSE records[CHOOSE i \in setters : \A j \in setters : j <= i].source_flags[k]]

\* the body of `for record in records[1:]`
MergeFields(merged, record) ==
    [merged EXCEPT
        !.venue_name = IF TextLen(record.venue_name) > TextLen(merged.venue_name)
                       THEN record.venue_name ELSE @,
        !.legal_name = IF @ = <<>> /\ record.legal_name # <<>> THEN record.legal_name ELSE @,
        !.phone = IF @ = <<>> /\ record.phone # <<>> THEN record.phone ELSE @,
        !.email = IF @ = "" /\ record.email # "" THEN record.email ELSE @,
        !.address = IF TextLen(record.address) > TextLen(merged.address)
                    THEN record.address ELSE @]

RECURSIVE MergeFrom(_, _, _)
MergeFrom(merged, records, i) ==
    IF i > Len(records) THEN merged
    ELSE MergeFrom(MergeFields(merged, records[i]), records, i + 1)

\* the merged record with the added keys _merged_from and _source_records
Entity(merged, merged_from, source_records) ==
    [candidate_id |-> merged.candidate_id, venue_name |-> merged.venue_name,
     legal_name |-> merged.legal_name, address |-> merged.address,
     phone |-> merged.phone, email |-> merged.email,
     source_flags |-> merged.source_flags, signals |-> merged.signals,
     merged_from |-> merged_from, source_records |-> source_records]

merge_group_records(records) ==
    Entity(MergeFrom([records[1] EXCEPT !.source_flags = MergeFlags(records)], records, 2),
           Len(records),
           [i \in 1..Len(records) |-> records[i].candidate_id])

\* _merge_resolved_groups: a group of one is passed through as it is
merge_resolved_groups(gs) ==
    LET nonempty == SelectSeq(gs, LAMBDA group : group # <<>>)
    IN  [i \in 1..Len(nonempty) |->
            IF Len(nonempty[i]) = 1 THEN nonempty[i][1]
            ELSE merge_group_records(nonempty[i])]

\* resolve_entities(candidates) is entered: unmatched = candidates.copy()
ResolverInit ==
    /\ PairIdle
    /\ EtaIdle
    /\ candidates \in CandidateLists
    /\ unmatched = candidates
    /\ groups = <<>>
    /\ ambiguous_pairs = <<>>
    /\ pair_idx = 0
    /\ final_groups = <<>>
    /\ llm_response = NoResponse
    /\ merged_candidates = <<>>
    /\ res_pc = "pass1"
    /\ seed_log = <<>>
    /\ confident_yes = <<>>

\* _apply_deterministic_rules: one iteration of `while unmatched`
ApplyDeterministicRulesStep ==
    /\ res_pc = "pass1"
    /\ unmatched # <<>>
    /\ groups' = Append(groups, SeedGroup(Head(unmatched), Tail(unmatched)))
    /\ unmatched' = SeedRemaining(Head(unmatched), Tail(unmatched))
    /\ seed_log' = Append(seed_log, <<Head(unmatched), Tail(unmatched)>>)
    /\ UNCHANGED <<candidates, ambiguous_pairs, pair_idx, final_groups, llm_response,
                   merged_candidates, res_pc, confident_yes, pairVars, etaAllVars>>

\* _apply_llm_matching, before its loop: the ambiguous pairs are all found up
\* front on the groups of Pass 1; final_groups = groups.copy().  The copy is
\* shallow, so a later extend() also lengthens the list groups holds, but
\* groups is not read again.
FindAmbiguousPairs ==
    /\ res_pc = "pass1"
    /\ unmatched = <<>>
    /\ ambiguous_pairs' = find_ambiguous_pairs(groups, 1, 2)
    /\ final_groups' = groups
    /\ pair_idx' = 1
    /\ res_pc' = "pass2"
    /\ UNCHANGED <<candidates, unmatched, groups, llm_response, merged_candidates,
                   seed_log, confident_yes, pairVars, etaAllVars>>

\* the answer is a JSON object with same_entity true and a confidence above 0.7
ConfidentYes(response) ==
    /\ response.kind = "dict"
    /\ response.same_entity = JBool(TRUE)
    /\ response.confidence_0_1.t = "num"
    /\ response.confidence_0_1.v > 70

\* _apply_llm_matching, one iteration of its loop: the oracle is asked about
\* the pair and the two groups are merged on a confident yes
EvaluateWithLLM ==
    /\ res_pc = "pass2"
    /\ pair_idx <= Len(ambiguous_pairs)
    /\ \E response \in ResponsePool :
          /\ llm_response' = response
          /\ confident_yes' = Append(confident_yes, ConfidentYes(response))
          /\ final_groups' =
                IF llm_says_merge(response)
                THEN MergeGroups(final_groups, ambiguous_pairs[pair_idx][1],
                                 ambiguous_pairs[pair_idx][2])
                ELSE final_groups
    /\ pair_idx' = pair_idx + 1
    /\ UNCHANGED <<candidates, unmatched, groups, ambiguous_pairs, merged_candidates,
                   res_pc, seed_log, pairVars, etaAllVars>>

\* the empty groups are filtered out and _merge_resolved_groups builds the output
MergeResolvedGroups ==
    /\ res_pc = "pass2"
    /\ pair_idx > Len(ambiguous_pairs)
    /\ merged_candidates' = merge_resolved_groups(final_groups)
    /\ res_pc' = "done"
    /\ UNCHANGED <<candidates, unmatched, groups, ambiguous_pairs, pair_idx, final_groups,
                   llm_response, seed_log, confident_yes, pairVars, etaAllVars>>

ResolverNext ==
    \/ ApplyDeterministicRulesStep
    \/ FindAmbiguousPairs
    \/ EvaluateWithLLM
    \/ MergeResolvedGroups

SpecResolver == ResolverInit /\ [][ResolverNext]_vars

(***************************************************************************)
(* ETA estimation: candidates and their signals                            *)
(*                                                                         *)
(* Instants and day offsets are counted in half-days, so that the x.5 days *)
(* an oracle may answer are exact; eta_days and the calendar dates of the  *)
(* signals are whole days.  A confidence is an integer number of           *)
(* millionths, a multiplier an integer number of ten-thousandths.          *)
(***************************************************************************)
Days(n) == 2 * n                      \* timedelta(days=n)
DateOf(t) == t \div 2                 \* datetime.date()

\* a date string of the signals: kind is "date" (YYYY-MM-DD), "naive" (a
\* datetime without offset), "aware" (a datetime ending in Z or an offset),
\* "bad" (a text that is no ISO date), "empty" ("") or "null" (None)
DateStr(kind, day) == [kind |-> kind, day |-> day]
NoDate == DateStr("none", 0)          \* latest_date = None
DateRaise == DateStr("raise", 0)      \* an exception left the parse

\* len(date_str)
DateLen(date_str) ==
    CASE date_str.kind = "date" -> 10
      [] date_str.kind = "naive" -> 19
      [] date_str.kind = "aware" -> 20
      [] date_str.kind = "bad" -> 3
      [] OTHER -> 0

\* a resolved candidate, as far as the ETA stage reads it
Candidate(venue_name, address, hc_health, tabc_status, tabc_dates, permit_types,
          milestone_dates) ==
    [venue_name |-> venue_name, address |-> address,
     source_flags |-> [hc_health |-> hc_health],
     signals |-> [tabc_status |-> tabc_status, tabc_dates |-> tabc_dates,
                  permit_types |-> permit_types, milestone_dates |-> milestone_dates]]

\* keyword in text.lower()
Contains(keyword, text) == IsSubstring(keyword, lower(text))
ContainsAny(keywords, text) == \E keyword \in keywords : IsSubstring(keyword, lower(text))

PLAN_REVIEW_APPROVED == <<"plan", "_", "review", "_", "approved">>
PLAN_REVIEW_RECEIVED == <<"plan", "_", "review", "_", "received">>
FOOD_SERVICE_PERMIT == <<"food", "_", "service", "_", "permit">>
UNKNOWN == <<"unknown">>

\* the status one permit type stands for, <<>> when it stands for none
PermitHealthStatus(permit_type) ==
    IF Contains(<<"plan", "review">>, permit_type)
    THEN (IF Contains(<<"approved">>, permit_type) THEN PLAN_REVIEW_APPROVED
          ELSE PLAN_REVIEW_RECEIVED)
    ELSE IF Contains(<<"food", "service">>, permit_type) THEN FOOD_SERVICE_PERMIT
    ELSE <<>>

\* the loop over permit_types: the first permit type that stands for a status
RECURSIVE FirstPermitStatus(_)
FirstPermitStatus(permit_types) ==
    IF permit_types = <<>> THEN UNKNOWN
    ELSE IF PermitHealthStatus(Head(permit_types)) # <<>>
         THEN PermitHealthStatus(Head(permit_types))
    ELSE FirstPermitStatus(Tail(permit_types))

infer_health_status(source_flags, signals) ==
    IF source_flags.hc_health # <<>> THEN source_flags.hc_health
    ELSE FirstPermitStatus(signals.permit_types)

extract_signals_data(candidate) ==
    [tabc_status |-> candidate.signals.tabc_status,
     tabc_dates |-> candidate.signals.tabc_dates,
     health_status |-> infer_health_status(candidate.source_flags, candidate.signals),
     permit_types |-> candidate.signals.permit_types,
     milestone_dates |-> candidate.signals.milestone_dates]

RECURSIVE SumSeq(_)
SumSeq(ns) == IF ns = <<>> THEN 0 ELSE Head(ns) + SumSeq(Tail(ns))

\* the lengths of the lines f"{prefix}{key}: {value}" of the truthy values
RECURSIVE DateLines(_, _)
DateLines(dates, prefix_len) ==
    IF dates = <<>> THEN <<>>
    ELSE (IF Head(dates)[2].kind \in {"empty", "null"} THEN <<>>
          ELSE <<prefix_len + TextLen(Head(dates)[1]) + 2 + DateLen(Head(dates)[2])>>)
         \o DateLines(Tail(dates), prefix_len)

\* text_parts of _extract_milestone_text, each line by its length
TextParts(signals) ==
    (IF signals.tabc_status # <<>> THEN <<13 + TextLen(signals.tabc_status)>> ELSE <<>>)
    \o DateLines(signals.tabc_dates, 5)
    \o [i \in 1..Len(signals.permit_types) |-> 8 + TextLen(signals.permit_types[i])]
    \o DateLines(signals.milestone_dates, 0)

JoinedLen(parts) == IF parts = <<>> THEN 0 ELSE SumSeq(parts) + Len(parts) - 1

\* len("\n".join(text_parts)); no line starts or ends with a blank
milestone_text_len(signals) == JoinedLen(TextParts(signals))

(***************************************************************************)
(* ETARulesEngine                                                          *)
(***************************************************************************)
IsAware(date_str) == date_str.kind = "aware"

\* one iteration of the loop of _get_latest_milestone_date: None.replace
\* raises AttributeError, which is not caught; fromisoformat raises ValueError
\* on a text that is no date, and comparing an aware with a naive datetime
\* raises TypeError: both are caught and the entry is skipped
NextLatest(date_key, date_str, keywords, latest_date) ==
    IF ~ContainsAny(keywords, date_key) THEN latest_date
    ELSE IF date_str.kind = "null" THEN DateRaise
    ELSE IF date_str.kind \in {"bad", "empty"} THEN latest_date
    ELSE IF latest_date.kind = "none" THEN date_str
    ELSE IF IsAware(date_str) # IsAware(latest_date) THEN latest_date
    ELSE IF date_str.day > latest_date.day THEN date_str
    ELSE latest_date

RECURSIVE LatestFrom(_, _, _, _)
LatestFrom(dates, keywords, i, latest_date) ==
    IF i > Len(dates) \/ latest_date.kind = "raise" THEN latest_date
    ELSE LatestFrom(dates, keywords, i + 1,
                    NextLatest(dates[i][1], dates[i][2], keywords, latest_date))

get_latest_milestone_date(dates, keywords) == LatestFrom(dates, keywords, 1, NoDate)

\* (self.today.date() - dt.date()).days
DaysSince(self_today, dt) == DateOf(self_today) - dt.day

\* `if dt and days since dt <= max_age: return result`, then `return None`
WithinAge(dt, max_age, self_today, result) ==
    IF dt.kind = "raise" THEN Raised
    ELSE IF dt.kind = "none" THEN NoResult
    ELSE IF DaysSince(self_today, dt) <= max_age THEN result
    ELSE NoResult

OriginalPending(tabc_status) ==
    Contains(<<"original">>, tabc_status) /\ Contains(<<"pending">>, tabc_status)

rule_high_probability_ship(signals, self_today) ==
    IF ~OriginalPending(signals.tabc_status) THEN NoResult
    ELSE IF ~Contains(<<"approved">>, signals.health_status) THEN NoResult
    ELSE WithinAge(get_latest_milestone_date(signals.milestone_dates,
                                             {<<"plan">>, <<"approved">>}),
                   45, self_today,
                   Result("high_probability_ship", self_today + Days(30),
                          self_today + Days(60), 45, 750000))

FINAL_INSPECTION_INDICATORS ==
    {<<"final", "inspection">>, <<"co", "pending">>, <<"co", "scheduled">>,
     <<"certificate", "of", "occupancy">>, <<"final", "review">>}

rule_final_inspection_scheduled(signals, self_today) ==
    IF \/ \E i \in 1..Len(signals.permit_types) :
             ContainsAny(FINAL_INSPECTION_INDICATORS, signals.permit_types[i])
       \/ \E i \in 1..Len(signals.milestone_dates) :
             ContainsAny(FINAL_INSPECTION_INDICATORS, signals.milestone_dates[i][1])
    THEN Result("final_inspection_scheduled", self_today + Days(7),
                self_today + Days(30), 18, 800000)
    ELSE NoResult

EARLY_PERMITS == {<<"tenant", "build-out">>, <<"new", "construction">>}

rule_strong_early_signal(signals, self_today) ==
    IF /\ \E i \in 1..Len(signals.permit_types) :
             ContainsAny(EARLY_PERMITS, signals.permit_types[i])
       /\ Contains(<<"pending">>, signals.tabc_status)
    THEN WithinAge(get_latest_milestone_date(signals.milestone_dates,
                                             {<<"application">>, <<"filed">>}),
                   60, self_today,
                   Result("strong_early_signal", self_today + Days(60),
                          self_today + Days(120), 90, 700000))
    ELSE NoResult

\* the two tiers by the age of the application
TabcTier(application_date, self_today) ==
    IF application_date.kind = "raise" THEN Raised
    ELSE IF application_date.kind = "none" THEN NoResult
    ELSE IF DaysSince(self_today, application_date) <= 30
         THEN Result("medium_tabc_pending_new", self_today + Days(45),
                     self_today + Days(90), 67, 650000)
    ELSE IF DaysSince(self_today, application_date) <= 75
         THEN Result("medium_tabc_pending_aged", self_today + Days(30),
                     self_today + Days(60), 45, 600000)
    ELSE NoResult

rule_medium_tabc_pending(signals, self_today) ==
    IF ~OriginalPending(signals.tabc_status) THEN NoResult
    ELSE TabcTier(get_latest_milestone_date(signals.tabc_dates,
                                            {<<"application">>, <<"filed">>}),
                  self_today)

\* building_permit_date is parsed before has_building_permit is looked at
BuildingPermit(building_permit_date, has_building_permit, self_today) ==
    IF building_permit_date.kind = "raise" THEN Raised
    ELSE IF ~has_building_permit THEN NoResult
    ELSE WithinAge(building_permit_date, 60, self_today,
                   Result("medium_plan_review_building", self_today + Days(45),
                          self_today + Days(90), 67, 550000))

rule_medium_plan_review_building(signals, self_today) ==
    IF ~(Contains(<<"plan">>, signals.health_status)
         /\ Contains(<<"review">>, signals.health_status))
    THEN NoResult
    ELSE BuildingPermit(get_latest_milestone_date(signals.milestone_dates,
                                                  {<<"building">>, <<"tenant">>}),
                        \E i \in 1..Len(signals.permit_types) :
                            ContainsAny({<<"building">>, <<"tenant">>},
                                        signals.permit_types[i]),
                        self_today)

rule_health_plan_review_only(signals, self_today) ==
    IF Contains(PLAN_REVIEW_APPROVED, signals.health_status)
    THEN WithinAge(get_latest_milestone_date(signals.milestone_dates,
                                             {<<"plan">>, <<"approved">>}),
                   45, self_today,
                   Result("health_plan_review_only", self_today + Days(45),
                          self_today + Days(90), 67, 600000))
    ELSE NoResult

NEGATIVE_PERMIT_TERMS == {<<"expired">>, <<"voided">>, <<"cancelled">>, <<"denied">>}
NEGATIVE_TABC_TERMS ==
    {<<"inactive">>, <<"denied">>, <<"rejected">>, <<"cancelled">>, <<"withdrawn">>}

\* multiplier *= 0.tenths, on ten-thousandths
Scale(multiplier, tenths) == (multiplier * tenths) \div 10

AddressFactor(candidate_data, multiplier) ==
    IF candidate_data.address = <<>> \/ TextLen(candidate_data.address) < 10
    THEN Scale(multiplier, 9) ELSE multiplier

VenueNameFactor(candidate_data, multiplier) ==
    IF candidate_data.venue_name = <<>> \/ TextLen(candidate_data.venue_name) < 3
    THEN Scale(multiplier, 9) ELSE multiplier

\* variant: the penalty is applied for each negative permit, without the break
PermitFactor_for_each_negative_permit(signals, multiplier) ==
    LET negative == {i \in 1..Len(signals.permit_types) :
                        ContainsAny(NEGATIVE_PERMIT_TERMS, signals.permit_types[i])}
    IN  IF Cardinality(negative) = 0 THEN multiplier
        ELSE IF Cardinality(negative) = 1 THEN Scale(multiplier, 7)
        ELSE Scale(Scale(multiplier, 7), 7)

\* the loop over permit_types breaks at the first negative permit
PermitFactor(signals, multiplier) ==
    IF \E i \in 1..Len(signals.permit_types) :
          ContainsAny(NEGATIVE_PERMIT_TERMS, signals.permit_types[i])
    THEN Scale(multiplier, 7) ELSE multiplier

TabcFactor(signals, multiplier) ==
    IF ContainsAny(NEGATIVE_TABC_TERMS, signals.tabc_status)
    THEN Scale(multiplier, 5) ELSE multiplier

FloorMultiplier(multiplier) == IF multiplier > 1000 THEN multiplier ELSE 1000

apply_downweight_factors(candidate_data, signals) ==
    FloorMultiplier(
        TabcFactor(signals,
            PermitFactor(signals,
                VenueNameFactor(candidate_data,
                    AddressFactor(candidate_data, 10000)))))

\* the six rules in the order of the list `rules`
RuleResults(signals, self_today) ==
    <<rule_high_probability_ship(signals, self_today),
      rule_final_inspection_scheduled(signals, self_today),
      rule_strong_early_signal(signals, self_today),
      rule_medium_tabc_pending(signals, self_today),
      rule_medium_plan_review_building(signals, self_today),
      rule_health_plan_review_only(signals, self_today)>>

\* result.confidence_0_1 *= multiplier: a base confidence is a whole number
\* of hundredths, and hundredths times ten-thousandths are millionths
Downweighted(results, multiplier) ==
    [i \in 1..Len(results) |->
        [results[i] EXCEPT !.confidence_0_1 = (@ \div 10000) * multiplier]]

\* max(valid_results, key=confidence): the first of the results of highest
\* confidence
RECURSIVE MaxConfidence(_, _)
MaxConfidence(valid_results, best) ==
    IF valid_results = <<>> THEN best
    ELSE MaxConfidence(Tail(valid_results),
                       IF best = NoResult
                          \/ Head(valid_results).confidence_0_1 > best.confidence_0_1
                       THEN Head(valid_results) ELSE best)

\* an exception of a rule leaves evaluate_candidate; else the triggered
\* results are down-weighted, those below 0.5 dropped and the best returned
BestResult(results, multiplier) ==
    IF \E i \in 1..Len(results) : results[i] = Raised THEN Raised
    ELSE MaxConfidence(
             SelectSeq(Downweighted(SelectSeq(results, LAMBDA r : r # NoResult),
                                    multiplier),
                       LAMBDA r : r.confidence_0_1 >= 500000),
             NoResult)

evaluate_candidate(candidate_data, signals, self_today) ==
    BestResult(RuleResults(signals, self_today),
               apply_downweight_factors(candidate_data, signals))

should_create_lead_before(eta_result, self_today) ==
    IF eta_result.confidence_0_1 < 650000 THEN FALSE
    ELSE eta_result.eta_start < self_today + Days(60)

should_create_lead(eta_result, self_today) ==
    IF eta_result.confidence_0_1 < 650000 THEN FALSE
    ELSE eta_result.eta_start <= self_today + Days(60)

(***************************************************************************)
(* Candidates of the ETA stage                                             *)
(***************************************************************************)
MaxClock == 2                         \* the wall clock runs over days 0..MaxClock

S_OriginalPending == <<"Original", "Pending">>
S_OriginalPendingDenied == <<"Original", "Pending", "Denied">>
S_Pending == <<"Pending">>
S_Active == <<"Active">>

H_PlanReviewApproved == <<"Plan", "Review", "Approved">>

PT_FinalInspection == <<"Final", "Inspection", "Scheduled">>
PT_FinalInspectionExpired == <<"Final", "Inspection", "Expired">>
PT_TenantBuildOut == <<"Tenant", "Build-Out">>
PT_Building == <<"Building", "Permit">>
PT_Voided == <<"Voided", "Permit">>
PT_PlanReview == <<"Plan", "Review">>
PT_FoodService == <<"Food", "Service", "Permit">>

K_ApplicationDate == <<"application", "_", "date">>
K_StatusDate == <<"status", "_", "date">>
K_PlanReviewApproved == <<"plan", "_", "review", "_", "approved">>
K_ApplicationFiled == <<"application", "_", "filed">>
K_BuildingPermitIssued == <<"building", "_", "permit", "_", "issued">>
K_COScheduled == <<"CO", "Scheduled">>

A_TenChars == <<"125", "Oak", "St">>
N_OneChar == <<"A">>
N_ThreeChars == <<"LLC">>

\* <<venue_name, address>>
NamesAndAddresses ==
    {<<N_Joes, A_Full>>, <<N_ThreeChars, A_TenChars>>, <<N_OneChar, A_Full>>,
     <<N_Joes, A_StateZipOnly>>, <<N_Joes, A_Empty>>, <<N_Empty, A_Empty>>}

\* <<tabc_status, tabc_dates>>
TabcSignals ==
    {<<<<>>, <<>>>>,
     <<S_Active, <<>>>>,
     <<S_Pending, <<<<K_ApplicationDate, DateStr("date", -10)>>>>>>,
     <<S_OriginalPending, <<>>>>,
     <<S_OriginalPending, <<<<K_ApplicationDate, DateStr("naive", -30)>>>>>>,
     <<S_OriginalPending, <<<<K_ApplicationDate, DateStr("date", -29)>>,
                            <<K_StatusDate, DateStr("date", -5)>>>>>>,
     <<S_OriginalPending, <<<<K_ApplicationDate, DateStr("naive", -75)>>>>>>,
     <<S_OriginalPending, <<<<K_ApplicationDate, DateStr("aware", -74)>>>>>>,
     <<S_OriginalPending, <<<<K_ApplicationDate, DateStr("bad", 0)>>>>>>,
     <<S_OriginalPending, <<<<K_ApplicationDate, DateStr("naive", -75)>>,
                            <<K_ApplicationFiled, DateStr("aware", -10)>>>>>>,
     <<S_OriginalPendingDenied, <<<<K_ApplicationDate, DateStr("naive", -45)>>>>>>}

HealthFlags == {<<>>, H_PlanReviewApproved}

PermitTypeLists ==
    {<<>>, <<PT_FinalInspection>>, <<PT_TenantBuildOut>>, <<PT_Building, PT_Voided>>,
     <<PT_FinalInspectionExpired>>, <<PT_FinalInspectionExpired, PT_Voided>>,
     <<PT_FoodService, PT_PlanReview>>,
     <<PT_PlanReview, H_PlanReviewApproved, PT_Building>>}

MilestoneDates ==
    {<<>>,
     <<<<K_PlanReviewApproved, DateStr("naive", -45)>>>>,
     <<<<K_PlanReviewApproved, DateStr("date", -44)>>,
       <<K_ApplicationFiled, DateStr("date", -70)>>>>,
     <<<<K_ApplicationFiled, DateStr("naive", -60)>>,
       <<K_BuildingPermitIssued, DateStr("naive", -59)>>>>,
     <<<<K_BuildingPermitIssued, DateStr("aware", -90)>>,
       <<K_ApplicationFiled, DateStr("date", -59)>>>>,
     <<<<K_COScheduled, DateStr("empty", 0)>>>>,
     <<<<K_COScheduled, DateStr("date", 10)>>,
       <<K_PlanReviewApproved, DateStr("null", 0)>>>>}

\* the candidates evaluate_candidate is applied to
RulePool ==
    {Candidate(na[1], na[2], h, t[1], t[2], p, m) :
        na \in NamesAndAddresses, h \in HealthFlags, t \in TabcSignals,
        p \in PermitTypeLists, m \in MilestoneDates}

ClockValues == {Days(d) : d \in 0..MaxClock}

\* an ETARulesEngine is built (self.today = datetime.now()) and asked about
\* one candidate
RulesInit ==
    /\ PairIdle
    /\ ResolverIdle
    /\ BatchIdle
    /\ batch_no = 0
    /\ clock \in ClockValues
    /\ today = clock
    /\ rule_in \in RulePool
    /\ rule_out = NoResult
    /\ lead_out = FALSE
    /\ rules_pc = "input"

EvaluateCandidate ==
    /\ rules_pc = "input"
    /\ rule_out' = evaluate_candidate(rule_in, extract_signals_data(rule_in), today)
    /\ rules_pc' = "evaluated"
    /\ UNCHANGED <<rule_in, lead_out, engineVars, etaVars, pairVars, resolverVars>>

\* should_create_lead of the result, as callers do after `if result`
ShouldCreateLead ==
    /\ rules_pc = "evaluated"
    /\ rule_out \notin {NoResult, Raised}
    /\ lead_out' = should_create_lead(rule_out, today)
    /\ rules_pc' = "gated"
    /\ UNCHANGED <<rule_in, rule_out, engineVars, etaVars, pairVars, resolverVars>>

RulesNext ==
    \/ EvaluateCandidate
    \/ ShouldCreateLead

SpecRules == RulesInit /\ [][RulesNext]_vars

(***************************************************************************)
(* ETAAgent: the AdjustmentOracle and the validation of its answers              *)
(*                                                                         *)
(* A JSON number of eta_days is counted in half-days, one of               *)
(* confidence_0_1 in millionths.                                           *)
(***************************************************************************)
JMissing == [t |-> "missing", v |-> 0]     \* the key is not in the object
JNaN == [t |-> "nan", v |-> 0]             \* NaN, which json.loads accepts
JFloat(n) == [t |-> "float", v |-> n]      \* n.0 where an index is expected

\* one element of the oracle's list: a JSON object, or anything else
Item(candidate_id, eta_days, confidence_0_1) ==
    [kind |-> "dict", candidate_id |-> candidate_id, eta_days |-> eta_days,
     confidence_0_1 |-> confidence_0_1]
NotADict == [kind |-> "other", candidate_id |-> JNull, eta_days |-> JMissing,
             confidence_0_1 |-> JMissing]

\* what the oracle call gives: kind is "raise" (llm._call raises), "not_json",
\* "not_list" (JSON that is no array), "list" (a JSON array of items), and
\* for the single variant "not_dict" or "dict" (the one object is items[1])
OracleResponse(kind, items) == [kind |-> kind, items |-> items]

\* int(x) of x half-days: truncation toward zero
IntDays(half_days) ==
    IF half_days >= 0 THEN half_days \div 2 ELSE -((-half_days) \div 2)

\* llm_output.get(key, original), then the clamp to original +- limit.
\* abs(x - original) raises TypeError on a string and on None; every
\* comparison with NaN is false, so NaN passes the clamp unchanged.
\* The value is [t |-> "num" | "nan" | "error", v |-> number].
Clamped(value, original, limit) ==
    IF value.t = "missing" THEN JNum(original)
    ELSE IF value.t = "nan" THEN JNaN
    ELSE IF value.t # "num" THEN [t |-> "error", v |-> 0]
    ELSE IF value.v - original > limit THEN JNum(original + limit)
    ELSE IF original - value.v > limit THEN JNum(original - limit)
    ELSE JNum(value.v)

\* max(0.0, min(1.0, adjusted_confidence)): min(1.0, nan) is 1.0, since
\* nan < 1.0 is false
UnitInterval(adjusted_confidence) ==
    IF adjusted_confidence.t = "nan" THEN 1000000
    ELSE IF adjusted_confidence.v > 1000000 THEN 1000000
    ELSE IF adjusted_confidence.v < 0 THEN 0
    ELSE adjusted_confidence.v

\* the adjusted ETARuleResult; timedelta(days=nan) raises ValueError
AdjustedResult(original_result, adjusted_days, adjusted_confidence, suffix) ==
    IF adjusted_days.t # "num" \/ adjusted_confidence.t = "error" THEN Raised
    ELSE Result(original_result.rule_name \o suffix,
                original_result.eta_start
                    + (adjusted_days.v - Days(original_result.eta_days)),
                original_result.eta_end
                    + (adjusted_days.v - Days(original_result.eta_days)),
                IntDays(adjusted_days.v),
                UnitInterval(adjusted_confidence))

\* the validation both variants apply; Raised when an exception leaves it
ValidatedResult(llm_output, original_result, suffix) ==
    AdjustedResult(original_result,
                   Clamped(llm_output.eta_days, Days(original_result.eta_days), Days(15)),
                   Clamped(llm_output.confidence_0_1, original_result.confidence_0_1,
                           100000),
                   suffix)

create_validated_adjusted_result(llm_output, original_result) ==
    ValidatedResult(llm_output, original_result, "_llm_batch_adjusted")

\* original_rule_results[candidate_id] of Python, as a 1-based position:
\* True and False index as 1 and 0, a negative index counts from the end;
\* 0 stands for the IndexError or TypeError of any other id
ListIndex(candidate_id, n) ==
    IF candidate_id.t \notin {"num", "bool"} THEN 0
    ELSE IF candidate_id.v >= 0 /\ candidate_id.v < n THEN candidate_id.v + 1
    ELSE IF candidate_id.v < 0 /\ candidate_id.v >= -n THEN n + candidate_id.v + 1
    ELSE 0

\* adjusted_results[candidate_id] = adjusted_result: a dict keeps the place
\* of a key it already holds (True and 1 are the same key)
PutResult(adjusted_results, key, adjusted_result) ==
    IF \E k \in 1..Len(adjusted_results) : adjusted_results[k][1] = key
    THEN [k \in 1..Len(adjusted_results) |->
            IF adjusted_results[k][1] = key THEN <<key, adjusted_result>>
            ELSE adjusted_results[k]]
    ELSE Append(adjusted_results, <<key, adjusted_result>>)

AdjustmentFailed == [failed |-> TRUE, entries |-> <<>>]

\* the end of one iteration: the validated result is stored under the id
StoreValidated(adjusted_results, key, adjusted_result) ==
    IF adjusted_result = Raised THEN AdjustmentFailed
    ELSE [failed |-> FALSE, entries |-> PutResult(adjusted_results, key, adjusted_result)]

\* one iteration of the loop over adjusted_json
AdjustItem(item, original_rule_results, adjusted_results) ==
    IF item.kind # "dict" THEN AdjustmentFailed
    ELSE IF item.candidate_id.t \in {"null", "missing"}
         THEN [failed |-> FALSE, entries |-> adjusted_results]
    ELSE IF ListIndex(item.candidate_id, Len(original_rule_results)) = 0
         THEN AdjustmentFailed
    ELSE IF original_rule_results[ListIndex(item.candidate_id,
                                            Len(original_rule_results))] = NoResult
         THEN [failed |-> FALSE, entries |-> adjusted_results]
    ELSE StoreValidated(adjusted_results, item.candidate_id.v,
             create_validated_adjusted_result(item,
                 original_rule_results[ListIndex(item.candidate_id,
                                                 Len(original_rule_results))]))

RECURSIVE AdjustItems(_, _, _, _)
AdjustItems(items, i, original_rule_results, adjusted) ==
    IF adjusted.failed \/ i > Len(items) THEN adjusted
    ELSE AdjustItems(items, i + 1, original_rule_results,
                     AdjustItem(items[i], original_rule_results, adjusted.entries))

\* what the loop comes to: the oracle's text is no JSON or no array
\* (json.loads or the iteration raises), or the tool has turned an exception
\* of the oracle into "[]", or the items are gone through
LoopResult(response, original_rule_results) ==
    IF response.kind = "list"
    THEN AdjustItems(response.items, 1, original_rule_results,
                     [failed |-> FALSE, entries |-> <<>>])
    ELSE IF response.kind = "raise" THEN [failed |-> FALSE, entries |-> <<>>]
    ELSE AdjustmentFailed

\* without the try: the exception leaves the call
Uncaught(adjusted) == [raised |-> adjusted.failed, entries |-> adjusted.entries]

\* try ... except Exception: return {}
Caught(adjusted) ==
    [raised |-> FALSE, entries |-> IF adjusted.failed THEN <<>> ELSE adjusted.entries]

\* the map _apply_batch_llm_adjustment returns, as the sequence of its
\* <<key, result>> in insertion order, and whether an exception leaves it
apply_batch_llm_adjustment(response, original_rule_results) ==
    Caught(LoopResult(response, original_rule_results))

\* for i, adjusted_result in adjusted_results.items(): final_results[i] = ...
RECURSIVE AssignResults(_, _, _)
AssignResults(final, adjusted_results, k) ==
    IF k > Len(adjusted_results) THEN final
    ELSE AssignResults(
             [final EXCEPT ![ListIndex(JNum(adjusted_results[k][1]), Len(final))] =
                               adjusted_results[k][2]],
             adjusted_results, k + 1)

\* _apply_llm_adjustment: the single variant returns rule_result on any exception
AdjustedOrOriginal(adjusted_result, rule_result) ==
    IF adjusted_result = Raised THEN rule_result ELSE adjusted_result

apply_llm_adjustment(rule_result, response) ==
    IF response.kind # "dict" THEN rule_result
    ELSE AdjustedOrOriginal(ValidatedResult(response.items[1], rule_result,
                                            "_llm_adjusted"),
                            rule_result)

(***************************************************************************)
(* ETAAgent: batches, oracle answers and the calls                         *)
(***************************************************************************)
MaxBatch == 2                         \* candidates per call
MaxCalls == 2                         \* calls per run

\* strong_early_signal: 0.70, from today + 60 days
C_Early ==
    Candidate(N_Joes, A_Full, <<>>, S_Pending, <<>>, <<PT_TenantBuildOut>>,
              <<<<K_ApplicationFiled, DateStr("date", -59)>>>>)
\* medium_tabc_pending_new on day 0 (0.65, from today + 45 days), _aged later
C_TabcNew ==
    Candidate(N_Joes, A_Full, <<>>, S_OriginalPending,
              <<<<K_ApplicationDate, DateStr("date", -29)>>>>, <<>>, <<>>)
\* final_inspection_scheduled (0.80) with an empty milestone text
C_ShortText ==
    Candidate(N_Joes, A_Full, <<>>, <<>>, <<>>, <<>>,
              <<<<K_COScheduled, DateStr("empty", 0)>>>>)
\* no rule triggers; the milestone text has 42 characters
C_NoRule == Candidate(N_Joes, A_Full, <<>>, S_Active, <<>>, <<PT_Building>>, <<>>)
\* a date that is None
C_NullDate ==
    Candidate(N_Joes, A_Full, <<>>, S_OriginalPending,
              <<<<K_ApplicationDate, DateStr("null", 0)>>>>, <<>>, <<>>)

EtaPool == {C_Early, C_TabcNew, C_ShortText, C_NoRule, C_NullDate}

RECURSIVE CandidateSeqs(_)
CandidateSeqs(n) ==
    IF n = 0 THEN {<<>>}
    ELSE {Append(b, c) : b \in CandidateSeqs(n - 1), c \in EtaPool}

Batches == UNION {CandidateSeqs(n) : n \in 1..MaxBatch}

\* eta_days and confidence_0_1 far above any rule result
Raise(candidate_id) == Item(candidate_id, JNum(Days(200)), JNum(2000000))
\* and far below
Lower0(candidate_id) == Item(candidate_id, JNum(0), JNum(0))

IdItems ==
    {Raise(id) : id \in {JNum(0), JNum(1), JNum(2), JNum(-1), JBool(TRUE), JFloat(1),
                         JStr, JNull}}

\* 70.5 days and 0.65
ValueItems ==
    {Item(JNum(0), JMissing, JMissing),
     Lower0(JNum(0)),
     Item(JNum(0), JNum(141), JNum(650000)),
     Item(JNum(0), JMissing, JNum(650000)),
     Item(JNum(0), JNaN, JNum(650000)),
     Item(JNum(0), JNum(141), JNaN),
     Item(JNum(0), JStr, JMissing),
     Item(JNum(0), JMissing, JNull)}

BatchResponses ==
    {OracleResponse("raise", <<>>), OracleResponse("not_json", <<>>),
     OracleResponse("not_list", <<>>), OracleResponse("list", <<>>)}
    \cup {OracleResponse("list", <<item>>) : item \in IdItems \cup ValueItems \cup {NotADict}}
    \cup {OracleResponse("list", items) :
            items \in {<<Raise(JNum(0)), Raise(JNum(1))>>,
                       <<Raise(JNum(0)), Item(JNum(1), JStr, JMissing)>>,
                       <<Raise(JNum(0)), NotADict>>,
                       <<Raise(JNum(0)), Lower0(JNum(0))>>,
                       <<Raise(JNum(1)), Lower0(JNum(-1))>>,
                       <<Lower0(JNum(-1)), Raise(JNum(1))>>,
                       <<Raise(JBool(TRUE)), Lower0(JNum(1))>>}}

SingleResponses ==
    {OracleResponse("raise", <<>>), OracleResponse("not_json", <<>>),
     OracleResponse("not_dict", <<>>)}
    \cup {OracleResponse("dict", <<item>>) : item \in ValueItems \cup {Raise(JNull)}}

\* per candidate and value of self.today: what evaluate_candidate returns, and
\* whether the candidate is put into llm_batch_inputs (`if rule_result` and
\* `len(milestone_text.strip()) > 20`)
RuleTable ==
    [c \in EtaPool, t \in ClockValues |->
        evaluate_candidate(c, extract_signals_data(c), t)]

NeedsLLMTable ==
    [c \in EtaPool, t \in ClockValues |->
        /\ RuleTable[c, t] # NoResult
        /\ milestone_text_len(extract_signals_data(c)) > 20]

RuleResultsOf(candidates_, self_today) ==
    [i \in 1..Len(candidates_) |-> RuleTable[candidates_[i], self_today]]

\* the wall clock advances by a day between two calls; no step of a call
\* reads it
Tick ==
    /\ eta_pc = "idle"
    /\ clock < Days(MaxClock)
    /\ clock' = clock + Days(1)
    /\ UNCHANGED <<today, rulesVars, etaVars, pairVars, resolverVars>>

\* ETAAgent(): its ETARulesEngine reads the clock
NewAgent ==
    /\ eta_pc = "idle"
    /\ today # clock
    /\ today' = clock
    /\ UNCHANGED <<clock, rulesVars, etaVars, pairVars, resolverVars>>

\* the call is entered and the rules are applied to every candidate: an
\* exception of a rule leaves the call; without inputs for the oracle the
\* rule results are final
Enter(candidates_, the_variant, results) ==
    /\ batch' = candidates_
    /\ variant' = the_variant
    /\ batch_no' = batch_no + 1
    /\ batch_began' = clock
    /\ response_str' = NoOracleResponse
    /\ qualified' = <<>>
    /\ IF \E i \in 1..Len(results) : results[i] = Raised
       THEN rule_results' = <<>> /\ final_results' = <<>> /\ eta_pc' = "raised"
       ELSE /\ rule_results' = results
            /\ final_results' = results
            /\ eta_pc' = IF \E i \in 1..Len(results) :
                                  NeedsLLMTable[candidates_[i], today]
                         THEN "oracle"
                         ELSE IF the_variant = "batch" THEN "gate" ELSE "done"
    /\ UNCHANGED <<engineVars, rulesVars, pairVars, resolverVars>>

\* estimate_opening_dates(resolved_candidates), up to the oracle call
EstimateOpeningDates ==
    /\ eta_pc = "idle"
    /\ batch_no < MaxCalls
    /\ \E b \in Batches : Enter(b, "batch", RuleResultsOf(b, today))

\* _estimate_single_candidate(candidate), up to the oracle call
EstimateSingleCandidate ==
    /\ eta_pc = "idle"
    /\ batch_no < MaxCalls
    /\ \E c \in EtaPool : Enter(<<c>>, "single", RuleResultsOf(<<c>>, today))

\* final_results after the oracle call, unless an exception leaves the call
Adjusted(outcome) ==
    IF outcome.raised
    THEN final_results' = <<>> /\ eta_pc' = "raised"
    ELSE final_results' = AssignResults(rule_results, outcome.entries, 1)
         /\ eta_pc' = "gate"

\* _apply_batch_llm_adjustment and the assignment of its results
ApplyBatchLLMAdjustment ==
    /\ eta_pc = "oracle"
    /\ variant = "batch"
    /\ \E r \in BatchResponses :
          /\ response_str' = r
          /\ Adjusted(apply_batch_llm_adjustment(r, rule_results))
    /\ UNCHANGED <<batch, variant, rule_results, qualified, batch_no, batch_began,
                   engineVars, rulesVars, pairVars, resolverVars>>

\* _apply_llm_adjustment
ApplyLLMAdjustment ==
    /\ eta_pc = "oracle"
    /\ variant = "single"
    /\ \E r \in SingleResponses :
          /\ response_str' = r
          /\ final_results' = <<apply_llm_adjustment(rule_results[1], r)>>
    /\ eta_pc' = "done"
    /\ UNCHANGED <<batch, variant, rule_results, qualified, batch_no, batch_began,
                   engineVars, rulesVars, pairVars, resolverVars>>

\* the loop of estimate_opening_dates over zip(candidates, results)
QualifyCandidates ==
    /\ eta_pc = "gate"
    /\ qualified' = [i \in 1..Len(final_results) |->
                        /\ final_results[i] # NoResult
                        /\ should_create_lead(final_results[i], today)]
    /\ eta_pc' = "done"
    /\ UNCHANGED <<batch, variant, rule_results, response_str, final_results, batch_no,
                   batch_began, engineVars, rulesVars, pairVars, resolverVars>>

\* the call returns, or the exception leaves it: its locals are gone
Return ==
    /\ eta_pc \in {"done", "raised"}
    /\ batch' = <<>> /\ variant' = "batch" /\ rule_results' = <<>>
    /\ response_str' = NoOracleResponse /\ final_results' = <<>> /\ qualified' = <<>>
    /\ eta_pc' = "idle" /\ batch_began' = 0
    /\ UNCHANGED <<batch_no, engineVars, rulesVars, pairVars, resolverVars>>

EtaInit ==
    /\ PairIdle
    /\ ResolverIdle
    /\ EtaIdle

EtaNext ==
    \/ Tick
    \/ NewAgent
    \/ EstimateOpeningDates
    \/ EstimateSingleCandidate
    \/ ApplyBatchLLMAdjustment
    \/ ApplyLLMAdjustment
    \/ QualifyCandidates
    \/ Return

SpecEta == EtaInit /\ [][EtaNext]_vars


(***************************************************************************)
(* Properties of the pair functions (specification SpecPair)               *)
(***************************************************************************)
Parsed1 == ParsedAddress[rec1.address]
Parsed2 == ParsedAddress[rec2.address]

HasField(addr, f) ==
    CASE f = "street_number" -> addr.street_number # ""
      [] f = "street_name" -> addr.street_name # <<>>
      [] f = "city" -> addr.city # <<>>
      [] f = "zip_code" -> addr.zip_code # ""

WeightOf(f) ==
    CASE f = "street_number" -> W_STREET_NUMBER
      [] f = "street_name" -> W_STREET_NAME
      [] f = "city" -> W_CITY
      [] f = "zip_code" -> W_ZIP

AddressFields == {"street_number", "street_name", "city", "zip_code"}

RECURSIVE SumWeights(_)
SumWeights(fs) ==
    IF fs = {} THEN 0
    ELSE LET f == CHOOSE x \in fs : TRUE IN WeightOf(f) + SumWeights(fs \ {f})

SharedFields == {f \in AddressFields : HasField(Parsed1, f) /\ HasField(Parsed2, f)}
EitherFields == {f \in AddressFields : HasField(Parsed1, f) \/ HasField(Parsed2, f)}

SimilarityDone ==
    pair_pc = "similarity" /\ rec1.address # <<>> /\ rec2.address # <<>>

\* the similarity is the matched score over the weights of the fields in fs
ScoreOver(fs) ==
    LET score == address_score(Parsed1, Parsed2)
        w == SumWeights(fs)
    IN  IF w = 0 THEN addr_sim_out.n = 0
        ELSE addr_sim_out.n * score.d * w = score.n * addr_sim_out.d

\* C9 as stated: a field's weight enters the denominator only when both parsed
\* addresses have the field, so the score is the matched weight over the weight
\* of the shared fields and a one-sided field does not lower it.
C9_DenominatorSharedFieldsOnly ==
    SimilarityDone => ScoreOver(SharedFields)

\* C9 amended: a field's weight enters the denominator when at least one of the
\* parsed addresses has the field (the numerator only when both have it), so a
\* field present on one side only lowers every non-zero score.
C9_DenominatorEitherSideFields ==
    SimilarityDone =>
        /\ ScoreOver(EitherFields)
        /\ (SharedFields # EitherFields /\ addr_sim_out.n > 0) =>
              LET score == address_score(Parsed1, Parsed2)
              IN  addr_sim_out.n * score.d * SumWeights(SharedFields)
                      < score.n * addr_sim_out.d

\* a pair agreeing on number, street and city, with a ZIP on one side only,
\* scored 0.9
C9_Witness ==
    /\ SimilarityDone
    /\ Parsed1.zip_code # "" /\ Parsed2.zip_code = ""
    /\ SharedFields = {"street_number", "street_name", "city"}
    /\ FracEq(addr_sim_out, Frac(9, 10))

NormalizedEqual ==
    /\ Parsed1.normalized # None
    /\ Parsed1.normalized = Parsed2.normalized

NamesSimilar ==
    FracGT(calculate_business_name_similarity(rec1.venue_name, rec2.venue_name), 8, 10)

\* C10 as stated: records whose normalized addresses are exactly equal are a
\* deterministic match whatever their names, phones and emails.
C10_NormalizedEqualMatches ==
    (pair_pc = "match" /\ NormalizedEqual) => match_out

\* C10 amended: records whose non-empty addresses are equal after lower-casing
\* are a deterministic match whatever their names, phones and emails; records
\* whose normalized addresses are equal (case and St/Street differences) are a
\* match when in addition their name similarity exceeds 0.8.
C10_RawEqualMatches ==
    pair_pc = "match" =>
        /\ (rec1.address # <<>> /\ lower(rec1.address) = lower(rec2.address)) => match_out
        /\ (NormalizedEqual /\ NamesSimilar) => match_out

\* addresses differing in letter case only, unrelated names, no contact data
C10_Witness ==
    /\ pair_pc = "match"
    /\ rec1.address # rec2.address
    /\ lower(rec1.address) = lower(rec2.address)
    /\ rec1.venue_name = N_Joes /\ rec2.venue_name = N_Marys
    /\ rec1.phone = P_None /\ rec1.email = ""
    /\ match_out

(***************************************************************************)
(* Properties of resolve_entities (specification SpecResolver)             *)
(***************************************************************************)
\* candidate ids of the records an output entity stands for
SourceRecordIds(entity) ==
    IF "source_records" \in DOMAIN entity THEN entity.source_records
    ELSE <<entity.candidate_id>>

\* _merged_from, or 1 for a record passed through
MergedFrom(entity) ==
    IF "merged_from" \in DOMAIN entity THEN entity.merged_from ELSE 1

RECURSIVE SumMergedFrom(_, _)
SumMergedFrom(entities, i) ==
    IF i > Len(entities) THEN 0
    ELSE MergedFrom(entities[i]) + SumMergedFrom(entities, i + 1)

\* C1: whatever the oracle answered (yes, no, unparseable, raise), the output
\* entities partition the input: every input record is a member of exactly one
\* entity and is listed there once, every member is an input record, the
\* merged_from values (1 for a singleton) add up to the number of inputs, the
\* member lists are pairwise disjoint, and no input gives no output.
C1_OutputPartitionsInput ==
    res_pc = "done" =>
        /\ \A i \in 1..Len(candidates) :
              Cardinality({k \in 1..Len(merged_candidates) :
                              candidates[i].candidate_id
                                  \in Range(SourceRecordIds(merged_candidates[k]))}) = 1
        /\ \A k \in 1..Len(merged_candidates) :
              LET ids == SourceRecordIds(merged_candidates[k])
              IN  /\ Cardinality(Range(ids)) = Len(ids)
                  /\ MergedFrom(merged_candidates[k]) = Len(ids)
                  /\ Range(ids) \subseteq {candidates[i].candidate_id : i \in 1..Len(candidates)}
        /\ SumMergedFrom(merged_candidates, 1) = Len(candidates)
        /\ \A k, l \in 1..Len(merged_candidates) :
              k # l => Range(SourceRecordIds(merged_candidates[k]))
                           \cap Range(SourceRecordIds(merged_candidates[l])) = {}
        /\ candidates = <<>> => merged_candidates = <<>>

\* three records in three Pass 1 groups, two oracle questions of which one was
\* answered with a confident yes and the last one raised: two entities come out
C1_Witness ==
    /\ res_pc = "done"
    /\ Len(candidates) = 3
    /\ Len(groups) = 3
    /\ Len(ambiguous_pairs) >= 2
    /\ llm_response.kind = "raise"
    /\ Len(merged_candidates) = 2

\* the records that matched the seed of the k-th Pass 1 iteration while unassigned
SeedMatches(k) ==
    {r \in Range(seed_log[k][2]) : is_deterministic_match(seed_log[k][1], r)}

\* C7: a record that is unassigned when a seed is popped and matches the seed
\* is in the seed's Pass 1 group, so any two records matching the same seed
\* share a group; and seed and matches are members of one output entity.
C7_SeedMatchesGrouped ==
    \A k \in 1..Len(seed_log) :
        /\ groups[k][1] = seed_log[k][1]
        /\ SeedMatches(k) \subseteq Range(groups[k])
        /\ res_pc = "done" =>
              \E e \in 1..Len(merged_candidates) :
                  {r.candidate_id : r \in SeedMatches(k) \cup {seed_log[k][1]}}
                      \subseteq Range(SourceRecordIds(merged_candidates[e]))

\* a seed matched two records that do not match each other, and the three
\* came out as one entity
C7_Witness ==
    /\ res_pc = "done"
    /\ \E k \in 1..Len(seed_log) :
          \E r1, r2 \in SeedMatches(k) :
              /\ r1 # r2
              /\ ~is_deterministic_match(r1, r2)
              /\ \E e \in 1..Len(merged_candidates) :
                    {seed_log[k][1].candidate_id, r1.candidate_id, r2.candidate_id}
                        \subseteq Range(SourceRecordIds(merged_candidates[e]))

(***************************************************************************)
(* Properties of the rule engine (specification SpecRules)                 *)
(***************************************************************************)
\* the six rule results of the candidate under evaluation
RulesOfInput == RuleResults(extract_signals_data(rule_in), today)

\* the confidence of the i-th rule result after the down-weighting
AdjustedConfidence(i) ==
    (RulesOfInput[i].confidence_0_1 \div 10000)
        * apply_downweight_factors(rule_in, extract_signals_data(rule_in))

\* the rules that triggered and whose adjusted confidence is at least 0.5
Remaining ==
    {i \in 1..6 : RulesOfInput[i] \notin {NoResult, Raised}
                  /\ AdjustedConfidence(i) >= 500000}

\* C3: evaluate_candidate returns a triggered rule's result with its base
\* confidence multiplied by the multiplier, that confidence being at least 0.5
\* and the highest of all such results, or null when no such result remains.
C3_ReturnsBestOrNull ==
    rules_pc \in {"evaluated", "gated"} =>
        IF Remaining = {} THEN rule_out = NoResult
        ELSE \E i \in Remaining :
                /\ rule_out = [RulesOfInput[i] EXCEPT
                                  !.confidence_0_1 = AdjustedConfidence(i)]
                /\ \A j \in Remaining : AdjustedConfidence(j) <= AdjustedConfidence(i)

(***************************************************************************)
(* Properties of the ETA agent (specification SpecEta)                     *)
(***************************************************************************)
\* C2: a result is admitted exactly when its confidence is at least 0.65 and
\* its eta_start is at most 60 days after the engine's today, both bounds
\* included; a result failing one of the two is rejected.
C2_GateIffBothConditions ==
    (eta_pc = "done" /\ variant = "batch") =>
        /\ Len(qualified) = Len(final_results)
        /\ \A i \in 1..Len(final_results) :
              final_results[i] # NoResult =>
                 (qualified[i] <=>
                     /\ final_results[i].confidence_0_1 >= 650000
                     /\ final_results[i].eta_start <= today + Days(60))

\* a result of confidence 0.65 that starts 60 days from today was admitted
C2_Witness ==
    /\ eta_pc = "done"
    /\ variant = "batch"
    /\ \E i \in 1..Len(final_results) :
          /\ final_results[i].confidence_0_1 = 650000
          /\ final_results[i].eta_start = today + Days(60)
          /\ final_results[i] # rule_results[i]
          /\ qualified[i]

\* the dict items of the oracle's answer
DictItems ==
    {response_str.items[k] : k \in {j \in 1..Len(response_str.items) :
                                      response_str.items[j].kind = "dict"}}

\* eta_days and confidence_0_1 of every item are JSON numbers (NaN is one
\* for json.loads)
NumericAnswer ==
    /\ response_str.kind \in {"list", "dict"}
    /\ \A k \in 1..Len(response_str.items) : response_str.items[k].kind = "dict"
    /\ \A item \in DictItems :
          item.eta_days.t \in {"num", "nan"} /\ item.confidence_0_1.t \in {"num", "nan"}

Distance(a, b) == IF a >= b THEN a - b ELSE b - a

\* C4: after an answer with numeric eta_days and confidence_0_1, in both
\* variants, every result is within 0.10 of the confidence and within 15 of
\* the eta_days of the rule result, and its confidence is within [0, 1].
C4_AdjustmentWithinBounds ==
    (eta_pc \in {"gate", "done"} /\ NumericAnswer) =>
        \A i \in 1..Len(final_results) :
            final_results[i] # NoResult =>
               /\ Distance(final_results[i].confidence_0_1,
                           rule_results[i].confidence_0_1) <= 100000
               /\ final_results[i].confidence_0_1 \in 0..1000000
               /\ Distance(final_results[i].eta_days, rule_results[i].eta_days) <= 15

\* the oracle call failed as a whole: it raised, or its text is no JSON, not
\* the JSON array (object) asked for, or holds an element that is no object or
\* an id that is no integer
CallFailed ==
    \/ response_str.kind \in {"raise", "not_json", "not_list", "not_dict"}
    \/ \E k \in 1..Len(response_str.items) : response_str.items[k].kind # "dict"
    \/ variant = "batch" /\ \E item \in DictItems : item.candidate_id.t \in {"str", "float"}

\* the answer holds a text or null where the i-th candidate's number should be
MalformedFor(i) ==
    \E item \in DictItems :
        /\ variant = "batch" => item.candidate_id = JNum(i - 1)
        /\ item.eta_days.t \in {"str", "null"} \/ item.confidence_0_1.t \in {"str", "null"}

\* C5: no exception leaves the stage once the oracle has been called; when
\* the call failed every candidate, and when an item is malformed its
\* candidate, has its rule result as final result; and the gate is evaluated
\* for every candidate of the batch.
C5_OracleFailureKeepsOriginals ==
    /\ eta_pc = "raised" => response_str = NoOracleResponse
    /\ (eta_pc \in {"gate", "done"} /\ response_str # NoOracleResponse) =>
          /\ CallFailed => final_results = rule_results
          /\ \A i \in 1..Len(batch) : MalformedFor(i) => final_results[i] = rule_results[i]
    /\ (eta_pc = "done" /\ variant = "batch" /\ response_str # NoOracleResponse
        /\ (CallFailed \/ \E i \in 1..Len(batch) : MalformedFor(i))) =>
          /\ Len(qualified) = Len(batch)
          /\ \A i \in 1..Len(batch) :
                qualified[i] <=> /\ final_results[i] # NoResult
                                 /\ final_results[i].confidence_0_1 >= 650000
                                 /\ final_results[i].eta_start <= today + Days(60)

\* the answer adjusted the first candidate and then held a text for the
\* second: both kept their rule results, and the gate admitted one of them
C5_Witness ==
    /\ eta_pc = "done"
    /\ variant = "batch"
    /\ Len(batch) = 2
    /\ response_str.kind = "list"
    /\ Len(response_str.items) = 2
    /\ response_str.items[1] = Raise(JNum(0))
    /\ MalformedFor(2)
    /\ rule_results[1] # NoResult /\ rule_results[2] # NoResult
    /\ final_results = rule_results
    /\ qualified[1] /\ ~qualified[2]

\* C6: in the batch variant a candidate whose id (its position, from 0) is
\* not in the oracle's answer has its rule result as final result.
C6_AbsentIdsKeepOriginal ==
    (eta_pc \in {"gate", "done"} /\ variant = "batch"
     /\ response_str # NoOracleResponse) =>
        \A i \in 1..Len(batch) :
            (\A item \in DictItems : item.candidate_id # JNum(i - 1)) =>
                final_results[i] = rule_results[i]

\* C8: the today a call works with was read from the clock during that call.
C8_NowCapturedPerBatch ==
    eta_pc \in {"oracle", "gate", "done", "raised"} => today = batch_began

(***************************************************************************)
(* Properties of the contact rules (specification SpecPair)                *)
(***************************************************************************)
\* the number of digit characters of a phone
DigitCount(phone) == Cardinality({i \in 1..Len(phone) : phone[i] \in Digits})

\* the k-th digit of a phone counted from its end (k = 1 is the last digit)
DigitFromEnd(phone, k) ==
    LET d == digits_only(phone) IN d[Len(d) - k + 1]

\* both phones have at least 10 digits and the same last 10 digits
PhonesAgree ==
    /\ DigitCount(rec1.phone) >= 10
    /\ DigitCount(rec2.phone) >= 10
    /\ \A k \in 1..10 : DigitFromEnd(rec1.phone, k) = DigitFromEnd(rec2.phone, k)

\* both emails are present and equal up to letter case
EmailsAgree ==
    rec1.email # "" /\ rec2.email # "" /\ Lower(rec1.email) = Lower(rec2.email)

\* the two records without their phones
NoPhone(record) == [record EXCEPT !.phone = <<>>]

\* C11: two records whose phones have at least 10 digits each and agree on the
\* last 10, or whose emails are present and equal case-insensitively, are a
\* match whatever their names and addresses; a phone of fewer than 10 digits
\* never triggers the phone rule (the verdict is that of the records without
\* phones).
C11_ContactRulesOverride ==
    pair_pc = "match" =>
        /\ (PhonesAgree \/ EmailsAgree) => match_out
        /\ (DigitCount(rec1.phone) < 10 \/ DigitCount(rec2.phone) < 10) =>
              match_out = is_deterministic_match(NoPhone(rec1), NoPhone(rec2))

\* the same number written two ways, at venues whose names and addresses have
\* similarity 0
C11_Witness ==
    /\ pair_pc = "match"
    /\ match_out
    /\ PhonesAgree
    /\ rec1.phone # rec2.phone
    /\ rec1.email = "" /\ rec2.email = ""
    /\ FracEq(calculate_business_name_similarity(rec1.venue_name, rec2.venue_name), FracZero)
    /\ FracEq(calculate_address_similarity(rec1.address, rec2.address), FracZero)

\* the two addresses are the same text but for the word after one suite keyword
DifferOnlyInSuite(address1, address2) ==
    /\ Len(address1) = Len(address2)
    /\ \E i \in 2..Len(address1) :
          /\ Lower(address1[i - 1]) \in SuiteKeywords
          /\ address1[i] # address2[i]
          /\ address1[i] # Comma /\ address2[i] # Comma
          /\ \A j \in 1..Len(address1) : j # i => address1[j] = address2[j]

\* C12: two records with name similarity of at least 0.95 whose addresses
\* differ only in the suite/unit token are a deterministic match, and
\* _extract_base_address yields the same base address for both.
C12_SuiteDifferenceMatches ==
    (/\ pair_pc = "match"
     /\ DifferOnlyInSuite(rec1.address, rec2.address)
     /\ ~FracLT(calculate_business_name_similarity(rec1.venue_name, rec2.venue_name),
                95, 100)) =>
        /\ match_out
        /\ extract_base_address(rec1.address) = extract_base_address(rec2.address)

(***************************************************************************)
(* Properties of Pass 2 (specification SpecResolver)                       *)
(***************************************************************************)
NoConfidentYes == \A k \in 1..Len(confident_yes) : ~confident_yes[k]

\* the candidate ids of the records of a group
GroupIds(group) == [i \in 1..Len(group) |-> group[i].candidate_id]

\* the output entities are the Pass 1 groups, in order
OutputIsPass1Grouping ==
    /\ Len(merged_candidates) = Len(groups)
    /\ \A k \in 1..Len(groups) :
          SourceRecordIds(merged_candidates[k]) = GroupIds(groups[k])

Unparseable(date_str) == date_str.kind \in {"bad", "empty", "null"}

\* the dates without the keys whose value cannot be parsed
ParseableDates(dates) == SelectSeq(dates, LAMBDA entry : ~Unparseable(entry[2]))

\* the candidate as if the keys with an unparseable value were not there
WithoutUnparseableDates(candidate) ==
    [candidate EXCEPT !.signals.tabc_dates = ParseableDates(@),
                      !.signals.milestone_dates = ParseableDates(@)]

\* C14: a date value that cannot be parsed never makes rule evaluation
\* raise; the candidate is evaluated as if the key of that value were absent.
C14_UnparseableDatesAreAbsent ==
    rules_pc = "evaluated" =>
        /\ rule_out # Raised
        /\ rule_out = evaluate_candidate(
                          WithoutUnparseableDates(rule_in),
                          extract_signals_data(WithoutUnparseableDates(rule_in)),
                          today)

(***************************************************************************)
(* Properties of the down-weighting (specification SpecRules)              *)
(***************************************************************************)
NegativeTabcStatus(candidate) ==
    ContainsAny({<<"inactive">>, <<"denied">>, <<"rejected">>, <<"cancelled">>,
                 <<"withdrawn">>}, candidate.signals.tabc_status)

NegativePermit(candidate) ==
    \E i \in 1..Len(candidate.signals.permit_types) :
        ContainsAny({<<"voided">>, <<"expired">>, <<"cancelled">>},
                    candidate.signals.permit_types[i])

\* C15: a candidate with a negative term in tabc_status and a voided, expired
\* or cancelled permit gets null from evaluate_candidate, whichever rules
\* trigger.
C15_NegativeSignalsGiveNull ==
    (rules_pc = "evaluated" /\ NegativeTabcStatus(rule_in) /\ NegativePermit(rule_in)) =>
        rule_out = NoResult

\* the results of the rules that trigger for the candidate, not down-weighted
Triggered(candidate, self_today) ==
    {RuleResults(extract_signals_data(candidate), self_today)[i] : i \in 1..6}
        \ {NoResult}

NoNegativeTerm(candidate) ==
    /\ ~ContainsAny(NEGATIVE_TABC_TERMS, candidate.signals.tabc_status)
    /\ \A i \in 1..Len(candidate.signals.permit_types) :
          ~ContainsAny(NEGATIVE_PERMIT_TERMS, candidate.signals.permit_types[i])

\* C16: for a candidate with a venue name of at least 3 characters, no
\* address and no negative permit or TABC term, evaluate_candidate returns
\* the result of a triggered rule with exactly the rule's base confidence
\* (0.8 for final_inspection_scheduled, 0.6 for the aged TABC application).
C16_NoAddressKeepsBaseConfidence ==
    (/\ rules_pc = "evaluated"
     /\ TextLen(rule_in.venue_name) >= 3
     /\ rule_in.address = <<>>
     /\ NoNegativeTerm(rule_in)
     /\ Triggered(rule_in, today) # {}) =>
        /\ rule_out \notin {NoResult, Raised}
        /\ rule_out \in Triggered(rule_in, today)

(***************************************************************************)
(* Properties of the merge (specification SpecResolver)                    *)
(***************************************************************************)
\* the input records an output entity was made of
RecordsOf(entity) ==
    {candidates[i] : i \in {k \in 1..Len(candidates) :
        \E n \in 1..Len(SourceRecordIds(entity)) :
            SourceRecordIds(entity)[n] = candidates[k].candidate_id}}

SignalKeys(signals) == {entry[1] : entry \in signals}

\* C17: an entity merged from several records has every source flag that one
\* of its records sets and every signals key of each of its records, not only
\* those of the base record.
C17_MergeKeepsFlagsAndSignals ==
    res_pc = "done" =>
        \A n \in 1..Len(merged_candidates) :
            \A record \in RecordsOf(merged_candidates[n]) :
                /\ \A k \in SourceFlagKeys :
                      record.source_flags[k] # "" => merged_candidates[n].source_flags[k] # ""
                /\ SignalKeys(record.signals) \subseteq SignalKeys(merged_candidates[n].signals)

(***************************************************************************)
(* Properties of the similarity functions (specification SpecPair)         *)
(***************************************************************************)
\* the parsed address has street number, street name, city and ZIP
FullySpecified(addr) ==
    \A f \in {"street_number", "street_name", "city", "zip_code"} : HasField(addr, f)

\* C18: calculate_address_similarity returns a value in [0,1] for every pair
\* of addresses, empty and unparseable ones included, and exactly 1 for an
\* address with street number, street name, city and ZIP compared with itself.
C18_AddressSimilarityInUnitInterval ==
    pair_pc = "similarity" =>
        /\ addr_sim_out.d > 0
        /\ 0 <= addr_sim_out.n /\ addr_sim_out.n <= addr_sim_out.d
        /\ (rec1.address = rec2.address /\ FullySpecified(Parsed1)) =>
              addr_sim_out.n = addr_sim_out.d

\* '123 Main St, Houston, TX 77001' compared with itself scored 1
C18_Witness ==
    /\ pair_pc = "similarity"
    /\ rec1.address = A_Full /\ rec2.address = A_Full
    /\ FullySpecified(Parsed1)
    /\ FracEq(addr_sim_out, FracOne)

\* C19: both similarities are symmetric: the value computed for (a, b) is the
\* value the function gives for (b, a).
C19_SimilaritiesSymmetric ==
    /\ pair_pc = "similarity" =>
          FracEq(addr_sim_out, calculate_address_similarity(rec2.address, rec1.address))
    /\ pair_pc = "name_similarity" =>
          FracEq(name_sim_out,
                 calculate_business_name_similarity(rec2.venue_name, rec1.venue_name))

\* a name contained in the other one: boosted in both orders
C19_Witness ==
    /\ pair_pc = "name_similarity"
    /\ rec1.venue_name = N_Joes /\ rec2.venue_name = N_JoesHouston
    /\ FracEq(name_sim_out, Frac(19, 20))

\* the entity with the record's id among its source records, 0 if none
EntityOf(record) ==
    LET holders == {n \in 1..Len(merged_candidates) :
                       \E m \in 1..Len(SourceRecordIds(merged_candidates[n])) :
                           SourceRecordIds(merged_candidates[n])[m] = record.candidate_id}
    IN  IF holders = {} THEN 0 ELSE CHOOSE n \in holders : TRUE

\* C20: whenever the oracle answered yes with confidence > 0.7 for a flagged
\* pair (r1 of group i, r2 of group j), r1, r2 and all records of the two
\* Pass 1 groups belong to one output entity, whatever the other answers of
\* the batch and their order.
C20_ConfidentYesMergesGroups ==
    res_pc = "done" =>
        \A k \in 1..Len(confident_yes) :
            confident_yes[k] =>
                LET pair == ambiguous_pairs[k]
                IN  /\ EntityOf(pair[3]) # 0
                    /\ EntityOf(pair[4]) = EntityOf(pair[3])
                    /\ \A m \in 1..Len(groups[pair[1]]) :
                          EntityOf(groups[pair[1]][m]) = EntityOf(pair[3])
                    /\ \A m \in 1..Len(groups[pair[2]]) :
                          EntityOf(groups[pair[2]][m]) = EntityOf(pair[3])

(***************************************************************************)
(* Properties of the Pass 2 loop (specification SpecResolver)              *)
(***************************************************************************)
\* the step asks the oracle about the pair at pair_idx
OracleAsked == res_pc = "pass2" /\ pair_idx' = pair_idx + 1

\* C21: the oracle is asked about a group pair only while both groups are
\* non-empty, and a group emptied by a merge stays empty: no later merge
\* moves records into it.
C21_EmptiedGroupsLeftAlone ==
    [][/\ OracleAsked =>
            /\ final_groups[ambiguous_pairs[pair_idx][1]] # <<>>
            /\ final_groups[ambiguous_pairs[pair_idx][2]] # <<>>
       /\ res_pc = "pass2" =>
            \A g \in 1..Len(final_groups) :
                final_groups[g] = <<>> => final_groups'[g] = <<>>]_vars

\* C22: every record pair sent to the oracle in Pass 2 is a pair for which
\* _is_deterministic_match is false, also when its first record is not the
\* seed of its Pass 1 group.
C22_NoDeterministicMatchEscalated ==
    res_pc \in {"pass2", "done"} =>
        \A k \in 1..Len(ambiguous_pairs) :
            /\ ~DeterministicMatch[<<ambiguous_pairs[k][3], ambiguous_pairs[k][4]>>]
            /\ ~DeterministicMatch[<<ambiguous_pairs[k][4], ambiguous_pairs[k][3]>>]

(***************************************************************************)
(* Properties of the batch adjustment (specification SpecEta)              *)
(***************************************************************************)
ShortMilestoneText(candidate) ==
    milestone_text_len(extract_signals_data(candidate)) <= 20

\* C23: the oracle changes a candidate's rule result only if the candidate's
\* milestone text is longer than 20 characters: a candidate with a shorter
\* text keeps its rule result whatever the answer holds.
C23_ShortTextKeepsRuleResult ==
    eta_pc \in {"gate", "done"} =>
        \A i \in 1..Len(batch) :
            ShortMilestoneText(batch[i]) => final_results[i] = rule_results[i]

\* the input record with the given candidate id
RecordOfId(id) ==
    candidates[CHOOSE i \in 1..Len(candidates) : candidates[i].candidate_id = id]

\* C24: in a merged entity every source_flags key that has a value on the
\* base (first) record keeps the base's value; the other members only fill
\* keys the base lacks.
C24_BaseFlagsKept ==
    res_pc = "done" =>
        \A n \in 1..Len(merged_candidates) :
            \A k \in SourceFlagKeys :
                LET base == RecordOfId(SourceRecordIds(merged_candidates[n])[1])
                IN  base.source_flags[k] # "" =>
                        merged_candidates[n].source_flags[k] = base.source_flags[k]

(***************************************************************************)
(* Properties of the signal extraction (specification SpecRules)           *)
(***************************************************************************)
SomePermit(candidate, P(_)) ==
    \E i \in 1..Len(candidate.signals.permit_types) : P(candidate.signals.permit_types[i])

\* the status by priority over the whole list, whatever its order
HealthStatusByPriority(candidate) ==
    IF candidate.source_flags.hc_health # <<>> THEN candidate.source_flags.hc_health
    ELSE IF SomePermit(candidate, LAMBDA p : Contains(<<"plan", "review">>, p)
                                               /\ Contains(<<"approved">>, p))
         THEN PLAN_REVIEW_APPROVED
    ELSE IF SomePermit(candidate, LAMBDA p : Contains(<<"plan", "review">>, p))
         THEN PLAN_REVIEW_RECEIVED
    ELSE IF SomePermit(candidate, LAMBDA p : Contains(<<"food", "service">>, p))
         THEN FOOD_SERVICE_PERMIT
    ELSE UNKNOWN

\* C25: the derived health_status is the hc_health flag when present, else
\* plan_review_approved if some permit type contains 'plan review' and
\* 'approved', else plan_review_received if some contains 'plan review', else
\* food_service_permit if some contains 'food service', else unknown, for
\* every order of permit_types.
C25_HealthStatusByPriority ==
    rules_pc = "evaluated" =>
        extract_signals_data(rule_in).health_status = HealthStatusByPriority(rule_in)

(***************************************************************************)
(* Properties of the date selection (specification SpecRules)              *)
(***************************************************************************)
\* the days of the parseable dates whose key matches the keyword filter
MatchingDays(dates, keywords) ==
    {dates[i][2].day : i \in {k \in 1..Len(dates) :
        /\ ContainsAny(keywords, dates[k][1])
        /\ dates[k][2].kind \in {"date", "naive", "aware"}}}

\* the date the rule uses is the most recent of the matching parseable dates
UsesMostRecent(dates, keywords) ==
    LET used == get_latest_milestone_date(dates, keywords)
        days == MatchingDays(dates, keywords)
    IN  used.kind # "raise" =>
            IF days = {} THEN used = NoDate
            ELSE used.kind # "none" /\ \A d \in days : d <= used.day

\* C26: the age a rule uses is computed from the most recent date among all
\* parseable dates whose key matches the rule's keyword filter, for every key
\* order and every mix of date-only, naive and offset-qualified values.
C26_MostRecentMatchingDate ==
    rules_pc = "evaluated" =>
        /\ UsesMostRecent(rule_in.signals.tabc_dates, {<<"application">>, <<"filed">>})
        /\ UsesMostRecent(rule_in.signals.milestone_dates, {<<"application">>, <<"filed">>})
        /\ UsesMostRecent(rule_in.signals.milestone_dates, {<<"plan">>, <<"approved">>})
        /\ UsesMostRecent(rule_in.signals.milestone_dates, {<<"building">>, <<"tenant">>})

(***************************************************************************)
(* Properties of the name normalizer (specification SpecPair)              *)
(***************************************************************************)
EndsWithSuffix(name) ==
    /\ name # <<>>
    /\ \E i \in 1..Len(Suffixes) : name[Len(name)] \in {Suffixes[i], Suffixes[i] \o "."}

\* the name without its run of trailing suffix words
RECURSIVE WithoutTrailingSuffixes(_)
WithoutTrailingSuffixes(name) ==
    IF EndsWithSuffix(name)
    THEN WithoutTrailingSuffixes(SubSeq(name, 1, Len(name) - 1))
    ELSE name

\* C27: the normalized name ends with no suffix of the list, for every order
\* of stacked suffixes, and two names that differ only in their trailing
\* suffixes normalize to the same string (their similarity is 1).
C27_TrailingSuffixesStripped ==
    pair_pc = "name_similarity" =>
        /\ ~EndsWithSuffix(NormalizedName[rec1.venue_name])
        /\ ~EndsWithSuffix(NormalizedName[rec2.venue_name])
        /\ (/\ rec1.venue_name # <<>>
            /\ WithoutTrailingSuffixes(lower(rec1.venue_name))
                 = WithoutTrailingSuffixes(lower(rec2.venue_name)))
           => /\ NormalizedName[rec1.venue_name] = NormalizedName[rec2.venue_name]
              /\ FracEq(name_sim_out, FracOne)

(***************************************************************************)
(* Properties of the confidence multiplier (specification SpecRules)       *)
(***************************************************************************)
\* the penalties that apply to the candidate, in tenths, each at most once
Penalties(candidate) ==
    [address |-> IF candidate.address = <<>> \/ TextLen(candidate.address) < 10
                 THEN 9 ELSE 10,
     venue_name |-> IF candidate.venue_name = <<>> \/ TextLen(candidate.venue_name) < 3
                    THEN 9 ELSE 10,
     permit |-> IF \E i \in 1..Len(candidate.signals.permit_types) :
                      ContainsAny(NEGATIVE_PERMIT_TERMS, candidate.signals.permit_types[i])
                THEN 7 ELSE 10,
     tabc |-> IF ContainsAny(NEGATIVE_TABC_TERMS, candidate.signals.tabc_status)
              THEN 5 ELSE 10]

\* the product of the penalties, in ten-thousandths
PenaltyProduct(candidate) ==
    LET p == Penalties(candidate)
    IN  p.address * p.venue_name * p.permit * p.tabc

HeldTogether(group) ==
    \E k \in 1..Len(final_groups) :
        \A m \in 1..Len(group) :
            \E n \in 1..Len(final_groups[k]) : final_groups[k][n] = group[m]

\* all records of the Pass 1 group are sources of one output entity
InOneEntity(group) ==
    \E n \in 1..Len(merged_candidates) :
        \A m \in 1..Len(group) :
            \E i \in 1..Len(SourceRecordIds(merged_candidates[n])) :
                SourceRecordIds(merged_candidates[n])[i] = group[m].candidate_id

\* C29: Pass 2 never splits a Pass 1 group: after every answer of the oracle
\* the records of each Pass 1 group are in one group, also when a merge
\* targets an index emptied before, and they belong to one output entity.
C29_Pass1GroupsNeverSplit ==
    /\ res_pc \in {"pass2", "done"} =>
          \A g \in 1..Len(groups) : HeldTogether(groups[g])
    /\ res_pc = "done" =>
          \A g \in 1..Len(groups) : InOneEntity(groups[g])

\* a Pass 1 group of two records was moved into an index that an earlier
\* merge had emptied, and its records are in one entity of the output
C29_Witness ==
    /\ res_pc = "done"
    /\ candidates = <<R_MarysZip, R_Marys, R_Joes, R_JoesLLC>>
    /\ Len(groups) = 3 /\ Len(groups[3]) = 2
    /\ confident_yes = <<TRUE, TRUE>>
    /\ ambiguous_pairs[1][2] = 2 /\ ambiguous_pairs[2][1] = 2 /\ ambiguous_pairs[2][2] = 3
    /\ final_groups[2] = groups[3]
    /\ Len(merged_candidates) = 2
    /\ InOneEntity(groups[3])

(***************************************************************************)
(* The batch answer as a whole (specification SpecEta)                     *)
(***************************************************************************)
\* an item of the answer that cannot be applied: it is no object, its id is
\* no integer or none of the ids 0..n-1 of the batch, or it holds a text or
\* null as eta_days or confidence_0_1 for a candidate with a rule result
FaultyItem(item) ==
    \/ item.kind # "dict"
    \/ item.candidate_id.t \in {"str", "float"}
    \/ /\ item.candidate_id.t = "num"
       /\ item.candidate_id.v \notin 0..(Len(batch) - 1)
    \/ /\ item.candidate_id.t = "num"
       /\ item.candidate_id.v \in 0..(Len(batch) - 1)
       /\ rule_results[item.candidate_id.v + 1] # NoResult
       /\ \/ item.eta_days.t \in {"str", "null"}
          \/ item.confidence_0_1.t \in {"str", "null"}

\* C30: the batch adjustment is all-or-nothing: when one item of the answer is
\* faulty (non-numeric eta_days or confidence, an id out of range or not an
\* integer), every candidate of the batch has its rule result as final
\* result, also those whose items came before the faulty one.
C30_FaultyItemRevertsBatch ==
    (/\ eta_pc \in {"gate", "done"}
     /\ variant = "batch"
     /\ response_str.kind = "list"
     /\ \E k \in 1..Len(response_str.items) : FaultyItem(response_str.items[k])) =>
        final_results = rule_results

=============================================================================
